---- MODULE Spec2Model ----
(***************************************************************************)
(* HearHere: the timestamp-based transport synchronisation (TimingSync)    *)
(* and the zone reconciliation of DrawMapZones over a shared Automerge     *)
(* document, for two peers.                                                *)
(*                                                                         *)
(* Times are milliseconds.  Engine positions (Tone's transport.seconds)   *)
(* are kept in milliseconds too, so elapsed / 1000 is the identity on the  *)
(* stored number and the 0.05 s drift threshold is 50.                     *)
(***************************************************************************)
EXTENDS Integers, Sequences, FiniteSets, TLC

Peers == {"A", "B"}

\* the null of `startTime: number | null` (no timestamp is negative)
Null == -1

\* an absent value is <<>>, a present one <<v>>
None == <<>>
Some(v) == <<v>>
The(o) == o[1]

\* `drift > 0.05` of syncToTransport, in milliseconds
Threshold == 50

\* the bpm of a fresh TimingSync
DefaultBpm == 120

\* the wall clock when the session starts (Date.now() is never 0)
Epoch == 1000

\* how many times the clock advances
MaxSteps == 3

\* how many times one replica's transport field is written
MaxWrites == 2

\* one step of the clock: just past the threshold
Step == Threshold + 1

\* while the clock makes a step a started engine stalls, falls short of the step
\* by exactly the threshold, covers the step, or runs ahead by a step
EngineSteps == {0, Step - Threshold, Step, Step + Step}

MaxElapsed == MaxSteps * Step

MaxNow == Epoch + MaxElapsed

\* the clock values the steps reach
Times == {Epoch + k * Step : k \in 0..MaxSteps}

\* the tempi a user picks
BPMs == {DefaultBpm, 140}

VARIABLES
    now,                  \* Date.now()
    isInitialized,        \* TimingSync.isInitialized, per peer
    currentState,         \* TimingSync.currentState, per peer
    updateInterval,       \* TimingSync.updateInterval: "null" or "timer"
    onBpmChangeCallback,  \* TimingSync.onBpmChangeCallback is set
    transport,            \* Tone.getTransport(): [state, seconds, bpm]
    pendingTimers,        \* window.setTimeout callbacks not yet fired
    isAudioEnabled,       \* DrawMapZones state isAudioEnabled
    timingSyncReady,      \* DrawMapZones state timingSyncReady
    docReady,             \* useDocument has a handle (changeDoc acts)
    docTransport,         \* each replica's `transport` field of the document
    out,                  \* the last TimingSync call: what it was, the clock, the
                          \* instance before it, what it returned, its engine calls
    playStreak            \* the startTimes play() returned on an initialized
                          \* instance since the last pause() or remote state
                          \* (the first and the latest)

tvars == <<now, isInitialized, currentState, updateInterval, onBpmChangeCallback,
           transport, pendingTimers, isAudioEnabled, timingSyncReady, docReady,
           docTransport,
           out, playStreak>>

VARIABLES
    drawnItems,           \* drawnItemsRef: the layers of the feature group
    syncIdToLayer,        \* syncIdToLayerRef: Map<string, L.Layer>
    layerToSyncId,        \* layerToSyncIdRef: Map<L.Layer, string>
    processedSyncIds,     \* processedSyncIdsRef: Set<string>
    pendingLocalShapes,   \* pendingLocalShapesRef: Set<string>
    shapeMetadata,        \* shapeMetadataRef: the DrawnLayer of each flat shape
    lastId,               \* the last id L.stamp handed out on the peer's page
    shapes,               \* each replica's changes to the `shapes` field
    minted,               \* how many shape ids have been minted, on all peers
    zout,                 \* the last zone operation, if it was a run of the sync
                          \* effect or clearArrangement: which, and the peer
    clearedPending,       \* the ids that were pending when the peer cleared
    shadowSound,          \* the soundId of each DrawnLayer of shapeMetadataRef
    aout,                 \* the last zone operation, if it was a run of the
                          \* audio effect: the peer, the shapes hit, the sounds
    player,               \* lastCalculationRef, currentSoundsRef, what the
                          \* SoundPlayer was last handed, and of the last run of
                          \* the throttled audio effect whether it ran and the
                          \* SoundPlayer call it made
    effectDeps,           \* the dependencies the transport sync effect last ran
                          \* with (React runs it again when they differ)
    rendered,             \* the syncedShapes of the peer's last render, and
                          \* whether the sync effect of that render is still
                          \* to run
    soundPlayer,          \* the SoundPlayer of the local page: soundMap,
                          \* activeSounds, the timeouts of stopSound not yet
                          \* fired, the sounds created so far, the last call
    gpTransport,          \* d.transport of the GPSound document in each
                          \* peer's replica, the dependencies the "Initialize
                          \* transport" effect last ran with, isTransportMaster
                          \* and the peers a call has returned true for
    users                 \* d.users[userId] of each peer in its own replica,
                          \* document.hidden of its tab, whether the presence
                          \* effect is mounted, and the last updatePresence

zvars == <<drawnItems, syncIdToLayer, layerToSyncId, processedSyncIds,
           pendingLocalShapes, shapeMetadata, lastId, shapes, minted, zout,
           clearedPending, shadowSound, aout, player, effectDeps, rendered,
           soundPlayer, gpTransport, users>>

vars == <<tvars, zvars>>

\* what the zone operations leave alone
timing == <<now, isInitialized, currentState, updateInterval, onBpmChangeCallback,
            transport, pendingTimers, isAudioEnabled, timingSyncReady,
            docTransport, out, playStreak, player, effectDeps, rendered,
            soundPlayer, gpTransport, users>>

\* TransportSyncState
TState(st, b, ip) == [startTime |-> st, bpm |-> b, isPlaying |-> ip]

\* JavaScript truthiness of a `number | null`
Truthy(n) == n # Null /\ n # 0

Abs(x) == IF x < 0 THEN -x ELSE x

(***************************************************************************)
(* The playback engine (Tone's Transport), as TimingSync uses it.  A call  *)
(* is logged as a record so that a claim can speak of the calls made.      *)
(***************************************************************************)
CallStart == [f |-> "start", v |-> 0]
CallStop == [f |-> "stop", v |-> 0]
CallSeconds(x) == [f |-> "seconds", v |-> x]
CallBpm(b) == [f |-> "bpm", v |-> b]
\* this.onBpmChangeCallback(Math.round(bpm)); a bpm here is an integer
CallOnBpmChange(b) == [f |-> "onBpmChange", v |-> b]

\* transport.start(): runs from the current position
EngineStart(s) ==
    [s EXCEPT !.transport.state = "started", !.calls = Append(@, CallStart)]

\* transport.stop(): stops and rewinds to 0
EngineStop(s) ==
    [s EXCEPT !.transport.state = "stopped", !.transport.seconds = 0,
              !.calls = Append(@, CallStop)]

\* transport.seconds = x
EngineSetSeconds(s, x) ==
    [s EXCEPT !.transport.seconds = x, !.calls = Append(@, CallSeconds(x))]

\* transport.bpm.value = b
EngineSetBpm(s, b) ==
    [s EXCEPT !.transport.bpm = b, !.calls = Append(@, CallBpm(b))]

(***************************************************************************)
(* TimingSync.  Each method is an operator from the instance (with its     *)
(* engine) before the call to the instance after it; `ret` is what the     *)
(* call returned and `calls` the engine calls it made.                     *)
(***************************************************************************)
Instance(p) ==
    [isInitialized |-> isInitialized[p],
     currentState |-> currentState[p],
     updateInterval |-> updateInterval[p],
     onBpmChangeCallback |-> onBpmChangeCallback[p],
     transport |-> transport[p],
     pendingTimers |-> pendingTimers[p],
     ret |-> None,
     calls |-> <<>>]

\* faulty variant: the comparison lets a drift of exactly the threshold through
syncToTransport_AtThreshold(s, t) ==
    IF ~s.isInitialized \/ ~s.currentState.isPlaying
         \/ ~Truthy(s.currentState.startTime)
    THEN s
    ELSE LET expectedPosition == t - s.currentState.startTime
             drift == Abs(s.transport.seconds - expectedPosition)
         IN  IF drift >= Threshold
             THEN EngineSetSeconds(s, expectedPosition)
             ELSE s

\* faulty variant: the expected position in beats, elapsed * bpm / 60
syncToTransport_Beats(s, t) ==
    IF ~s.isInitialized \/ ~s.currentState.isPlaying
         \/ ~Truthy(s.currentState.startTime)
    THEN s
    ELSE LET expectedPosition ==
                 ((t - s.currentState.startTime) * s.currentState.bpm) \div 60
             drift == Abs(s.transport.seconds - expectedPosition)
         IN  IF drift > Threshold
             THEN EngineSetSeconds(s, expectedPosition)
             ELSE s

\* faulty variant: the difference is taken the other way round
elapsed_Backwards(state, t) == state.startTime - t

\* elapsed = Date.now() - this.currentState.startTime, which in ms is the
\* expected position
elapsed(state, t) == t - state.startTime

syncToTransport(s, t) ==
    IF ~s.isInitialized \/ ~s.currentState.isPlaying
         \/ ~Truthy(s.currentState.startTime)
    THEN s
    ELSE LET expectedPosition == elapsed(s.currentState, t)
             currentPosition == s.transport.seconds
             drift == Abs(currentPosition - expectedPosition)
         IN  IF drift > Threshold
             THEN EngineSetSeconds(s, expectedPosition)
             ELSE s

\* the delay sync() hands to setTimeout, in whole ms: Math.random() is r
\* thousandths (0 <= r < 1000)
baseInterval == 250
jitterRange == 50
Randoms == {0, 1, 500, 999}

\* faulty variant: the numbers of the project's notes
jitter_500(r) == 500 + ((r * 100 * 2) \div 1000 - 100)

jitter(r) == baseInterval + ((r * jitterRange * 2) \div 1000 - jitterRange)

\* sync(): one corrector run, then the next timeout is scheduled
startSyncLoop(s, t) ==
    [syncToTransport(s, t) EXCEPT !.updateInterval = "timer",
                                  !.pendingTimers = @ + 1]

\* faulty variant: no check of isInitialized
initialize_Unguarded(s, b, t) ==
    startSyncLoop(
        EngineSetBpm([s EXCEPT !.currentState.bpm = b,
                               !.isInitialized = TRUE], b), t)

initialize(s, b, t) ==
    IF s.isInitialized
    THEN s
    ELSE startSyncLoop(
             EngineSetBpm([s EXCEPT !.currentState.bpm = b,
                                    !.isInitialized = TRUE], b), t)

\* faulty variant: the engine is started without its position being set
syncFromRemote_FromZero(s, state, t) ==
    IF ~s.isInitialized
    THEN s
    ELSE LET s1 == EngineSetBpm([s EXCEPT !.currentState = state], state.bpm)
         IN  IF state.isPlaying /\ Truthy(state.startTime)
             THEN IF s1.transport.state # "started" THEN EngineStart(s1) ELSE s1
             ELSE IF s1.transport.state # "stopped" THEN EngineStop(s1) ELSE s1

\* faulty variant: a playing state starts the engine whatever its state
syncFromRemote_AlwaysStarts(s, state, t) ==
    IF ~s.isInitialized
    THEN s
    ELSE LET prevBpm == s.currentState.bpm
             s0 == [s EXCEPT !.currentState = state]
             notified == IF Abs(prevBpm - state.bpm) > 0 /\ s0.onBpmChangeCallback
                         THEN [s0 EXCEPT !.calls = Append(@, CallOnBpmChange(state.bpm))]
                         ELSE s0
             s1 == EngineSetBpm(notified, state.bpm)
         IN  IF state.isPlaying /\ Truthy(state.startTime)
             THEN EngineStart(EngineSetSeconds(s1, t - state.startTime))
             ELSE IF s1.transport.state # "stopped"
                  THEN EngineStop(s1)
                  ELSE s1

\* faulty variant: the position is written in beats, elapsed * bpm / 60
syncFromRemote_Beats(s, state, t) ==
    IF ~s.isInitialized
    THEN s
    ELSE LET s1 == EngineSetBpm([s EXCEPT !.currentState = state], state.bpm)
         IN  IF state.isPlaying /\ Truthy(state.startTime)
             THEN LET s2 == EngineSetSeconds(
                                s1, ((t - state.startTime) * state.bpm) \div 60)
                  IN  IF s2.transport.state # "started"
                      THEN EngineStart(s2)
                      ELSE s2
             ELSE IF s1.transport.state # "stopped"
                  THEN EngineStop(s1)
                  ELSE s1

syncFromRemote(s, state, t) ==
    IF ~s.isInitialized
    THEN s
    ELSE LET prevBpm == s.currentState.bpm
             s0 == [s EXCEPT !.currentState = state]
             notified == IF Abs(prevBpm - state.bpm) > 0 /\ s0.onBpmChangeCallback
                         THEN [s0 EXCEPT !.calls = Append(@, CallOnBpmChange(state.bpm))]
                         ELSE s0
             s1 == EngineSetBpm(notified, state.bpm)
         IN  IF state.isPlaying /\ Truthy(state.startTime)
             THEN LET s2 == EngineSetSeconds(s1, t - state.startTime)
                  IN  IF s2.transport.state # "started"
                      THEN EngineStart(s2)
                      ELSE s2
             ELSE IF s1.transport.state # "stopped"
                  THEN EngineStop(s1)
                  ELSE s1

setBPM(s, b) ==
    IF ~s.isInitialized
    THEN [s EXCEPT !.ret = Some(s.currentState)]
    ELSE LET s1 == EngineSetBpm([s EXCEPT !.currentState.bpm = b], b)
         IN  [s1 EXCEPT !.ret = Some(s1.currentState)]

\* faulty variant: no "already playing" check, every play() restarts
play_Restart(s, t) ==
    IF ~s.isInitialized
    THEN [s EXCEPT !.ret = Some(s.currentState)]
    ELSE LET s1 == EngineStart([s EXCEPT !.currentState.startTime = t,
                                         !.currentState.isPlaying = TRUE])
         IN  [s1 EXCEPT !.ret = Some(s1.currentState)]

\* faulty variant: isPlaying is set and startTime is not
play_NoStartTime(s, t) ==
    IF ~s.isInitialized
    THEN [s EXCEPT !.ret = Some(s.currentState)]
    ELSE IF s.currentState.isPlaying
    THEN [s EXCEPT !.ret = Some(s.currentState)]
    ELSE LET s1 == EngineStart([s EXCEPT !.currentState.isPlaying = TRUE])
         IN  [s1 EXCEPT !.ret = Some(s1.currentState)]

\* faulty variant: the engine is not started
play_NoEngine(s, t) ==
    IF ~s.isInitialized
    THEN [s EXCEPT !.ret = Some(s.currentState)]
    ELSE IF s.currentState.isPlaying
    THEN [s EXCEPT !.ret = Some(s.currentState)]
    ELSE LET s1 == [s EXCEPT !.currentState.startTime = t,
                             !.currentState.isPlaying = TRUE]
         IN  [s1 EXCEPT !.ret = Some(s1.currentState)]

play(s, t) ==
    IF ~s.isInitialized
    THEN [s EXCEPT !.ret = Some(s.currentState)]
    ELSE IF s.currentState.isPlaying
    THEN [s EXCEPT !.ret = Some(s.currentState)]
    ELSE LET s1 == EngineStart([s EXCEPT !.currentState.startTime = t,
                                         !.currentState.isPlaying = TRUE])
         IN  [s1 EXCEPT !.ret = Some(s1.currentState)]

\* transport.start() or transport.stop() throws: the call is made and leaves the
\* engine as it was
EngineThrows(s, call) == [s EXCEPT !.calls = Append(@, call)]

\* play() when transport.start() throws: currentState is already written and the
\* exception leaves play() before its return statement
playThrows(s, t) ==
    IF ~s.isInitialized \/ s.currentState.isPlaying
    THEN play(s, t)
    ELSE EngineThrows([s EXCEPT !.currentState.startTime = t,
                                !.currentState.isPlaying = TRUE], CallStart)

\* faulty variant: startTime is not cleared
pause_KeepsStartTime(s) ==
    IF ~s.isInitialized
    THEN [s EXCEPT !.ret = Some(s.currentState)]
    ELSE LET s1 == EngineStop([s EXCEPT !.currentState.isPlaying = FALSE])
         IN  [s1 EXCEPT !.ret = Some(s1.currentState)]

\* faulty variant: no "not initialized" check
pause_NoGuard(s) ==
    LET s1 == EngineStop([s EXCEPT !.currentState.isPlaying = FALSE,
                                   !.currentState.startTime = Null])
    IN  [s1 EXCEPT !.ret = Some(s1.currentState)]

pause(s) ==
    IF ~s.isInitialized
    THEN [s EXCEPT !.ret = Some(s.currentState)]
    ELSE LET s1 == EngineStop([s EXCEPT !.currentState.isPlaying = FALSE,
                                        !.currentState.startTime = Null])
         IN  [s1 EXCEPT !.ret = Some(s1.currentState)]

\* pause() when transport.stop() throws
pauseThrows(s) ==
    IF ~s.isInitialized
    THEN pause(s)
    ELSE EngineThrows([s EXCEPT !.currentState.isPlaying = FALSE,
                                !.currentState.startTime = Null], CallStop)

onBpmChange(s) == [s EXCEPT !.onBpmChangeCallback = TRUE]

\* faulty variant: the pending timer is not cancelled
destroy_KeepsTimer(s) ==
    [s EXCEPT !.isInitialized = FALSE, !.onBpmChangeCallback = FALSE]

destroy(s) ==
    LET s1 == IF s.updateInterval # "null"
              THEN [s EXCEPT !.updateInterval = "null", !.pendingTimers = @ - 1]
              ELSE s
    IN  [s1 EXCEPT !.isInitialized = FALSE, !.onBpmChangeCallback = FALSE]

(***************************************************************************)
(* The `transport` field of the shared document.  updateTransportState     *)
(* assigns the whole object, so concurrent writes do not mix fields: each  *)
(* replica holds one write, and a merge keeps the one with the greater     *)
(* Automerge op id (Lamport counter, then actor).                          *)
(***************************************************************************)
NoTransport == [ver |-> 0, by |-> "none", val |-> None]

\* faulty variant: of two concurrent writes each replica keeps its own
Newer_KeepsOwn(a, b) == a.ver > b.ver

Newer(a, b) == a.ver > b.ver \/ (a.ver = b.ver /\ a.by # b.by /\ a.by = "B")

\* changeDoc(d => { d.transport = transportState }) on replica r of peer p
updateTransportState(ready, r, p, state) ==
    IF ~ready
    THEN r
    ELSE [ver |-> r.ver + 1, by |-> p, val |-> Some(state)]

\* the value the component reads as props.transportState
transportState(p) == docTransport[p].val

(***************************************************************************)
(* Actions                                                                 *)
(***************************************************************************)
\* the instance as a call finds it
Before(p) ==
    [isInitialized |-> isInitialized[p],
     currentState |-> currentState[p],
     transport |-> transport[p]]

\* write the instance back to the peer's variables and log the call
Commit(p, op, s) ==
    /\ isInitialized' = [isInitialized EXCEPT ![p] = s.isInitialized]
    /\ currentState' = [currentState EXCEPT ![p] = s.currentState]
    /\ updateInterval' = [updateInterval EXCEPT ![p] = s.updateInterval]
    /\ onBpmChangeCallback' = [onBpmChangeCallback EXCEPT ![p] = s.onBpmChangeCallback]
    /\ transport' = [transport EXCEPT ![p] = s.transport]
    /\ pendingTimers' = [pendingTimers EXCEPT ![p] = s.pendingTimers]
    /\ out' = [op |-> op, peer |-> p, t |-> now, pre |-> Before(p),
               ret |-> s.ret, calls |-> s.calls]

\* playStreak after a play() that returned r
PlayStartAfter(p, r) ==
    [playStreak EXCEPT ![p] =
        IF ~isInitialized[p] THEN @
        ELSE IF @ = <<>> THEN <<The(r).startTime>>
        ELSE <<@[1], The(r).startTime>>]

\* TimingSync.initialize(bpm)
Initialize(p, b) ==
    /\ Commit(p, "initialize", initialize(Instance(p), b, now))
    /\ UNCHANGED <<zvars, now, isAudioEnabled, timingSyncReady, docReady, docTransport,
                   playStreak>>

\* TimingSync.destroy()
Destroy(p) ==
    /\ Commit(p, "destroy", destroy(Instance(p)))
    /\ UNCHANGED <<zvars, now, isAudioEnabled, timingSyncReady, docReady, docTransport,
                   playStreak>>

\* TimingSync.play()
Play(p) ==
    /\ Commit(p, "play", play(Instance(p), now))
    /\ playStreak' = PlayStartAfter(p, play(Instance(p), now).ret)
    /\ UNCHANGED <<zvars, now, isAudioEnabled, timingSyncReady, docReady, docTransport>>

\* TimingSync.pause()
Pause(p) ==
    /\ Commit(p, "pause", pause(Instance(p)))
    /\ playStreak' = [playStreak EXCEPT ![p] = None]
    /\ UNCHANGED <<zvars, now, isAudioEnabled, timingSyncReady, docReady, docTransport>>

\* TimingSync.setBPM(bpm)
SetBPM(p, b) ==
    /\ Commit(p, "setBPM", setBPM(Instance(p), b))
    /\ UNCHANGED <<zvars, now, isAudioEnabled, timingSyncReady, docReady, docTransport,
                   playStreak>>

\* TimingSync.syncFromRemote(state), with a state another peer published
SyncFromRemote(p, state) ==
    /\ Commit(p, "syncFromRemote", syncFromRemote(Instance(p), state, now))
    /\ playStreak' = [playStreak EXCEPT ![p] = None]
    /\ UNCHANGED <<zvars, now, isAudioEnabled, timingSyncReady, docReady, docTransport>>

\* TimingSync.onBpmChange(callback)
OnBpmChange(p) ==
    /\ Commit(p, "onBpmChange", onBpmChange(Instance(p)))
    /\ UNCHANGED <<zvars, now, isAudioEnabled, timingSyncReady, docReady, docTransport,
                   playStreak>>

\* the timeout of startSyncLoop fires: sync() runs and schedules the next one
Tick(p) ==
    /\ pendingTimers[p] > 0
    /\ Commit(p, "tick",
              startSyncLoop([Instance(p) EXCEPT !.pendingTimers = @ - 1], now))
    /\ UNCHANGED <<zvars, now, isAudioEnabled, timingSyncReady, docReady, docTransport,
                   playStreak>>

\* the timeout fires when Math.random() gives r: as Tick, and the log holds the
\* delay of the timeout sync() sets and the timeouts then pending
TickAfter(p, r) ==
    /\ pendingTimers[p] > 0
    /\ LET s == startSyncLoop([Instance(p) EXCEPT !.pendingTimers = @ - 1], now)
       IN  /\ isInitialized' = [isInitialized EXCEPT ![p] = s.isInitialized]
           /\ currentState' = [currentState EXCEPT ![p] = s.currentState]
           /\ updateInterval' = [updateInterval EXCEPT ![p] = s.updateInterval]
           /\ onBpmChangeCallback' =
                 [onBpmChangeCallback EXCEPT ![p] = s.onBpmChangeCallback]
           /\ transport' = [transport EXCEPT ![p] = s.transport]
           /\ pendingTimers' = [pendingTimers EXCEPT ![p] = s.pendingTimers]
           /\ out' = [op |-> "tick", peer |-> p, t |-> now, pre |-> Before(p),
                      ret |-> s.ret, calls |-> s.calls, delay |-> jitter(r),
                      timers |-> s.pendingTimers]
    /\ UNCHANGED <<zvars, now, isAudioEnabled, timingSyncReady, docReady, docTransport,
                   playStreak>>

\* handleUpdateMarkerAudio: the user enables audio
handleUpdateMarkerAudio(p) ==
    /\ ~isAudioEnabled[p]
    /\ isAudioEnabled' = [isAudioEnabled EXCEPT ![p] = TRUE]
    /\ UNCHANGED <<zvars, now, isInitialized, currentState, updateInterval,
                   onBpmChangeCallback, transport, pendingTimers, timingSyncReady,
                   docReady, docTransport, out, playStreak>>

\* the effect "Initialize TimingSync when audio is enabled"
initializeTiming(p) ==
    /\ isAudioEnabled[p] /\ ~timingSyncReady[p]
    /\ LET s1 == initialize(Instance(p), DefaultBpm, now)
           \* soundPlayer.initializeTransport(120)
           s2 == EngineSetBpm(s1, DefaultBpm)
           s3 == IF transportState(p) # None
                 THEN syncFromRemote(s2, The(transportState(p)), now)
                 ELSE s2
       IN  Commit(p, "initializeTiming", onBpmChange(s3))
    /\ playStreak' =
          [playStreak EXCEPT ![p] = IF transportState(p) # None THEN None ELSE @]
    /\ timingSyncReady' = [timingSyncReady EXCEPT ![p] = TRUE]
    /\ UNCHANGED <<zvars, now, isAudioEnabled, docReady, docTransport>>

\* faulty variant: the effect publishes the state it has applied
transportSyncEffect_Publishes(p) ==
    /\ isAudioEnabled[p] /\ timingSyncReady[p] /\ transportState(p) # None
    /\ docTransport[p].ver < MaxWrites
    /\ Commit(p, "syncFromRemote",
              syncFromRemote(Instance(p), The(transportState(p)), now))
    /\ docTransport' =
          [docTransport EXCEPT
              ![p] = updateTransportState(docReady[p], @, p, The(transportState(p)))]
    /\ playStreak' = [playStreak EXCEPT ![p] = None]
    /\ UNCHANGED <<zvars, now, isAudioEnabled, timingSyncReady, docReady>>

\* the effect "Sync from remote Automerge transport state changes"
transportSyncEffect(p) ==
    /\ isAudioEnabled[p] /\ timingSyncReady[p] /\ transportState(p) # None
    /\ Commit(p, "syncFromRemote",
              syncFromRemote(Instance(p), The(transportState(p)), now))
    /\ playStreak' = [playStreak EXCEPT ![p] = None]
    /\ UNCHANGED <<zvars, now, isAudioEnabled, timingSyncReady, docReady, docTransport>>

\* a handler's publication of the state a TimingSync call returned
Publish(p, s) ==
    docTransport' = [docTransport EXCEPT ![p] =
                        updateTransportState(docReady[p], @, p, The(s.ret))]

handleTransportStart(p) ==
    /\ timingSyncReady[p]
    /\ docTransport[p].ver < MaxWrites
    /\ Commit(p, "play", play(Instance(p), now))
    /\ Publish(p, play(Instance(p), now))
    /\ playStreak' = PlayStartAfter(p, play(Instance(p), now).ret)
    /\ UNCHANGED <<zvars, now, isAudioEnabled, timingSyncReady, docReady>>

handleTransportStop(p) ==
    /\ timingSyncReady[p]
    /\ docTransport[p].ver < MaxWrites
    /\ Commit(p, "pause", pause(Instance(p)))
    /\ Publish(p, pause(Instance(p)))
    /\ playStreak' = [playStreak EXCEPT ![p] = None]
    /\ UNCHANGED <<zvars, now, isAudioEnabled, timingSyncReady, docReady>>

\* a handler run that an exception ends: the instance is written back as the
\* call left it, and the log says whether the document was ready
Thrown(p, op, s) ==
    /\ isInitialized' = [isInitialized EXCEPT ![p] = s.isInitialized]
    /\ currentState' = [currentState EXCEPT ![p] = s.currentState]
    /\ updateInterval' = [updateInterval EXCEPT ![p] = s.updateInterval]
    /\ onBpmChangeCallback' = [onBpmChangeCallback EXCEPT ![p] = s.onBpmChangeCallback]
    /\ transport' = [transport EXCEPT ![p] = s.transport]
    /\ pendingTimers' = [pendingTimers EXCEPT ![p] = s.pendingTimers]
    /\ out' = [op |-> op, peer |-> p, t |-> now, pre |-> Before(p),
               ret |-> s.ret, calls |-> s.calls, threw |-> TRUE,
               ready |-> docReady[p]]

\* handleTransportStart when the engine throws on start: there is no try/catch
\* in the handler or in play(), so updateTransportState is not reached
handleTransportStartThrows(p) ==
    /\ timingSyncReady[p]
    /\ isInitialized[p] /\ ~currentState[p].isPlaying
    /\ Thrown(p, "play", playThrows(Instance(p), now))
    /\ UNCHANGED <<zvars, now, isAudioEnabled, timingSyncReady, docReady,
                   docTransport, playStreak>>

\* handleTransportStop when the engine throws on stop
handleTransportStopThrows(p) ==
    /\ timingSyncReady[p]
    /\ isInitialized[p]
    /\ Thrown(p, "pause", pauseThrows(Instance(p)))
    /\ UNCHANGED <<zvars, now, isAudioEnabled, timingSyncReady, docReady,
                   docTransport, playStreak>>

handleBPMChange(p, b) ==
    /\ timingSyncReady[p]
    /\ docTransport[p].ver < MaxWrites
    /\ Commit(p, "setBPM", setBPM(Instance(p), b))
    /\ Publish(p, setBPM(Instance(p), b))
    /\ UNCHANGED <<zvars, now, isAudioEnabled, timingSyncReady, docReady, playStreak>>

\* useDocument obtains the handle: from now on changeDoc acts
DocumentReady(p) ==
    /\ ~docReady[p]
    /\ docReady' = [docReady EXCEPT ![p] = TRUE]
    /\ UNCHANGED <<zvars, now, isInitialized, currentState, updateInterval,
                   onBpmChangeCallback, transport, pendingTimers, isAudioEnabled,
                   timingSyncReady, docTransport, out, playStreak>>

\* replica p receives replica q's changes from the sync server
MergeTransport(p, q) ==
    /\ p # q /\ docReady[p] /\ docReady[q]
    /\ Newer(docTransport[q], docTransport[p])
    /\ docTransport' = [docTransport EXCEPT ![p] = docTransport[q]]
    /\ UNCHANGED <<zvars, now, isInitialized, currentState, updateInterval,
                   onBpmChangeCallback, transport, pendingTimers, isAudioEnabled,
                   timingSyncReady, docReady, out, playStreak>>

\* the dependency array of the effect "Sync from remote Automerge transport
\* state changes": [transportState, isAudioEnabled, timingSyncReady]
Deps(p) ==
    [transportState |-> docTransport[p], isAudioEnabled |-> isAudioEnabled[p],
     timingSyncReady |-> timingSyncReady[p]]

\* the effect has run since its dependencies last changed
Settled(p) == effectDeps[p] = Deps(p)

\* React runs the effect "Sync from remote Automerge transport state changes"
\* at peer p, a dependency having changed since its last run
transportSyncEffectRun(p) ==
    /\ ~Settled(p)
    /\ effectDeps' = [effectDeps EXCEPT ![p] = Deps(p)]
    /\ IF isAudioEnabled[p] /\ timingSyncReady[p] /\ transportState(p) # None
       THEN /\ Commit(p, "syncFromRemote",
                      syncFromRemote(Instance(p), The(transportState(p)), now))
            /\ playStreak' = [playStreak EXCEPT ![p] = None]
       ELSE UNCHANGED <<isInitialized, currentState, updateInterval,
                        onBpmChangeCallback, transport, pendingTimers, out,
                        playStreak>>
    /\ UNCHANGED <<now, isAudioEnabled, timingSyncReady, docReady, docTransport,
                   drawnItems, syncIdToLayer, layerToSyncId, processedSyncIds,
                   pendingLocalShapes, shapeMetadata, lastId, shapes, minted,
                   zout, clearedPending, shadowSound, aout, player, rendered,
                   soundPlayer, gpTransport, users>>

\* the clock advances by d while peer p's engine, if started, advances by e[p]
Advance(d, e) ==
    /\ d > 0 \/ \E p \in Peers : e[p] > 0 /\ transport[p].state = "started"
    /\ now + d <= MaxNow
    /\ \A p \in Peers : transport[p].seconds + e[p] <= MaxElapsed
    /\ now' = now + d
    /\ transport' =
          [p \in Peers |->
              IF transport[p].state = "started"
              THEN [transport[p] EXCEPT !.seconds = @ + e[p]]
              ELSE transport[p]]
    /\ UNCHANGED <<zvars, isInitialized, currentState, updateInterval,
                   onBpmChangeCallback, pendingTimers, isAudioEnabled,
                   timingSyncReady, docReady, docTransport, out, playStreak>>

(***************************************************************************)
(* Zones: the `shapes` field of the shared document and DrawMapZones'      *)
(* reconciliation of the map with it                                       *)
(***************************************************************************)
\* bounds: shape ids minted, ids L.stamp hands out per page, and the counter
\* of the changes that assign the `shapes` field, and the assignments of
\* sounds and coordinates a replica holds
MaxZones == 1
MaxStamps == MaxZones + 1
MaxMaps == 2
MaxSounds == 2

\* the tools of the draw control (polyline and marker are switched off) that
\* the model draws with
ShapeTypes == {"circle"}

\* a JavaScript Map as a function: set, delete, and the empty Map
NoEntries == [k \in {} |-> k]
MapSet(m, k, v) == [x \in DOMAIN m \cup {k} |-> IF x = k THEN v ELSE m[x]]
MapDelete(m, k) == [x \in DOMAIN m \ {k} |-> m[x]]

\* The changes a replica holds to the `shapes` field: "mk" assigns the field a
\* new map object (named by its change counter and its actor), "put" and "del"
\* set and delete a key of one map object.  The `id` of a change is the key;
\* `rid` is the id field of the record a "put" stores under it.
MkOp(o) ==
    [k |-> "mk", obj |-> o, id |-> 0, rid |-> 0, type |-> "", coordinates |-> 0,
     createdBy |-> "", createdAt |-> 0]
PutOp(o, id, rid, type, coor, by, at) ==
    [k |-> "put", obj |-> o, id |-> id, rid |-> rid, type |-> type,
     coordinates |-> coor, createdBy |-> by, createdAt |-> at]
DelOp(o, id) ==
    [k |-> "del", obj |-> o, id |-> id, rid |-> 0, type |-> "", coordinates |-> 0,
     createdBy |-> "", createdAt |-> 0]

\* a change that assigns the coordinates of the record of `id` in map object
\* o; n is its counter
CrdOp(o, id, coor, n, by) ==
    [k |-> "crd", obj |-> o, id |-> id, coordinates |-> coor, n |-> n, by |-> by]

CrdOps(r, o, id) == {x \in r : x.k = "crd" /\ x.obj = o /\ x.id = id}

\* the coordinates of the record that `put` wrote: what addShape wrote or the
\* latest assignment
coordinatesOf(r, put) ==
    LET ops == CrdOps(r, put.obj, put.id)
    IN  IF ops = {}
        THEN put.coordinates
        ELSE (CHOOSE x \in ops : \A y \in ops \ {x} :
                 x.n > y.n \/ (x.n = y.n /\ x.by = "B")).coordinates

Objects(r) == {op.obj : op \in {x \in r : x.k = "mk"}}

\* of two assignments of the field the one with the larger counter is the
\* later; concurrent ones are ordered by actor
Later(a, b) == a[1] > b[1] \/ (a[1] = b[1] /\ a[2] # b[2] /\ a[2] = "B")

\* d.shapes: the map object the field holds, if any
ShapesObject(r) ==
    IF Objects(r) = {}
    THEN None
    ELSE Some(CHOOSE o \in Objects(r) : \A x \in Objects(r) \ {o} : Later(o, x))

NextCounter(r) ==
    IF Objects(r) = {}
    THEN 1
    ELSE 1 + (CHOOSE n \in {o[1] : o \in Objects(r)} :
                 \A o \in Objects(r) : o[1] <= n)

\* the "put" changes of the keys d.shapes has
Puts(r) ==
    IF ShapesObject(r) = None
    THEN {}
    ELSE LET o == The(ShapesObject(r))
         IN  {x \in r : x.k = "put" /\ x.obj = o /\ DelOp(o, x.id) \notin r}

\* the keys of d.shapes: d.shapes && d.shapes[shapeId] is shapeId \in Keys(r)
Keys(r) == {op.id : op \in Puts(r)}

\* Object.values(doc.shapes), or [] when the field is not there
Entries(r) ==
    {[id |-> op.rid, type |-> op.type,
      coordinates |-> coordinatesOf(r, op),
      createdBy |-> op.createdBy, createdAt |-> op.createdAt] : op \in Puts(r)}

syncedShapes(p) == Entries(shapes[p])

\* the ids of syncedShapes
SyncIds(p) == {e.id : e \in syncedShapes(p)}

\* transportState?.isPlaying, as the component reads it
Playing(p) == transportState(p) # None /\ The(transportState(p)).isPlaying

addShape(ready, r, p, shapeId, type, coordinates) ==
    IF ~ready
    THEN r
    ELSE LET r1 == IF ShapesObject(r) = None
                   THEN r \cup {MkOp(<<NextCounter(r), p>>)}
                   ELSE r
         IN  r1 \cup {PutOp(The(ShapesObject(r1)), shapeId, shapeId, type,
                            coordinates, p, now)}

deleteShape(ready, r, shapeId) ==
    IF ~ready
    THEN r
    ELSE IF shapeId \in Keys(r)
    THEN r \cup {DelOp(The(ShapesObject(r)), shapeId)}
    ELSE r

\* faulty variant: the field is left as it is
clearAllShapes_Nothing(ready, r, p) == r

clearAllShapes(ready, r, p) ==
    IF ~ready
    THEN r
    ELSE r \cup {MkOp(<<NextCounter(r), p>>)}

\* the sounds a zone can be given; "null" is no sound
SoundIds == {"null", "kick", "pad"}

\* a change that assigns the soundId of the record of `id` in map object o; n
\* is its counter
SndOp(o, id, soundId, n, by) ==
    [k |-> "snd", obj |-> o, id |-> id, soundId |-> soundId, n |-> n, by |-> by]

SndOps(r, o, id) == {x \in r : x.k = "snd" /\ x.obj = o /\ x.id = id}

\* the soundId of the record of `id` in d.shapes: what addShape wrote (null)
\* or the latest assignment
soundOf(r, id) ==
    LET o == The(ShapesObject(r))
        ops == SndOps(r, o, id)
    IN  IF ops = {}
        THEN "null"
        ELSE (CHOOSE x \in ops : \A y \in ops \ {x} :
                 x.n > y.n \/ (x.n = y.n /\ x.by = "B")).soundId

NextSndCounter(r, id) ==
    LET ops == SndOps(r, The(ShapesObject(r)), id)
    IN  IF ops = {}
        THEN 1
        ELSE 1 + (CHOOSE n \in {x.n : x \in ops} : \A x \in ops : x.n <= n)

\* faulty variant: the record is written anew by the peer that assigns the
\* sound
updateShapeSound_Replace(ready, r, p, shapeId, soundId) ==
    IF ~ready
    THEN r
    ELSE IF shapeId \in Keys(r)
    THEN LET old == CHOOSE x \in Puts(r) : x.id = shapeId
         IN  (r \ {old})
                \cup {PutOp(old.obj, shapeId, shapeId, old.type, old.coordinates,
                            p, now),
                      SndOp(old.obj, shapeId, soundId, NextSndCounter(r, shapeId), p)}
    ELSE r

updateShapeSound(ready, r, p, shapeId, soundId) ==
    IF ~ready
    THEN r
    ELSE IF shapeId \in Keys(r)
    THEN r \cup {SndOp(The(ShapesObject(r)), shapeId, soundId,
                       NextSndCounter(r, shapeId), p)}
    ELSE r

NextCrdCounter(r, id) ==
    LET ops == CrdOps(r, The(ShapesObject(r)), id)
    IN  IF ops = {}
        THEN 1
        ELSE 1 + (CHOOSE n \in {x.n : x \in ops} : \A x \in ops : x.n <= n)

\* faulty variant: a record that is not there is written anew
updateShapeCoordinates_Upsert(ready, r, p, shapeId, coordinates) ==
    IF ~ready
    THEN r
    ELSE IF shapeId \in Keys(r)
    THEN r \cup {CrdOp(The(ShapesObject(r)), shapeId, coordinates,
                       NextCrdCounter(r, shapeId), p)}
    ELSE IF ShapesObject(r) = None
    THEN r
    ELSE (r \ {DelOp(The(ShapesObject(r)), shapeId)})
            \cup {PutOp(The(ShapesObject(r)), shapeId, shapeId, "circle",
                        coordinates, p, now)}

updateShapeCoordinates(ready, r, p, shapeId, coordinates) ==
    IF ~ready
    THEN r
    ELSE IF shapeId \in Keys(r)
    THEN r \cup {CrdOp(The(ShapesObject(r)), shapeId, coordinates,
                       NextCrdCounter(r, shapeId), p)}
    ELSE r

\* the records of d.shapes by key, with every field
Records(r) ==
    [key \in Keys(r) |->
        LET op == CHOOSE x \in Puts(r) : x.id = key
        IN  [id |-> op.rid, type |-> op.type,
             coordinates |-> coordinatesOf(r, op),
             soundId |-> soundOf(r, key), createdBy |-> op.createdBy,
             createdAt |-> op.createdAt]]

\* the Flatten object of a shape type
flattenShape(shapeType) ==
    CASE shapeType = "marker" -> "Point"
      [] shapeType \in {"circle", "circlemarker"} -> "Circle"
      [] shapeType \in {"rectangle", "polygon"} -> "Polygon"
      [] OTHER -> "Error"

\* the Leaflet layer the sync effect builds for a shape type, if any
LayerTypes == {"circle", "rectangle", "polygon", "circlemarker"}

\* a layer, as L.stamp numbers it, and the geometry it draws
Layer(stamp, coordinates) == [stamp |-> stamp, coordinates |-> coordinates]

\* a DrawnLayer, the value shapeMetadataRef holds for a flat shape
DrawnLayer(stamp, type, coordinates) ==
    [id |-> stamp, type |-> type, coordinates |-> coordinates]

\* the reconciliation state of peer p
Zones(p) ==
    [drawnItems |-> drawnItems[p], syncIdToLayer |-> syncIdToLayer[p],
     layerToSyncId |-> layerToSyncId[p], processedSyncIds |-> processedSyncIds[p],
     pendingLocalShapes |-> pendingLocalShapes[p],
     shapeMetadata |-> shapeMetadata[p], lastId |-> lastId[p]]

NoZones ==
    [drawnItems |-> {}, syncIdToLayer |-> NoEntries, layerToSyncId |-> NoEntries,
     processedSyncIds |-> {}, pendingLocalShapes |-> {}, shapeMetadata |-> {},
     lastId |-> 0]

\* getShapeByID, then removeShapeFromState if it found an entry
removeShapeByID(z, leafletId) ==
    IF \E m \in z.shapeMetadata : m.id = leafletId
    THEN [z EXCEPT !.shapeMetadata =
                       @ \ {CHOOSE m \in z.shapeMetadata : m.id = leafletId}]
    ELSE z

\* the CREATED handler, from the id addShape returned on
created(z, syncId, type, shapeCoor) ==
    LET layer == Layer(z.lastId + 1, shapeCoor)
        z1 == [z EXCEPT !.lastId = @ + 1,
                        !.drawnItems = @ \cup {layer},
                        !.syncIdToLayer = MapSet(@, syncId, layer),
                        !.layerToSyncId = MapSet(@, layer, syncId),
                        !.processedSyncIds = @ \cup {syncId},
                        !.pendingLocalShapes = @ \cup {syncId}]
    IN  IF flattenShape(type) \in {"Circle", "Polygon"}
        THEN [z1 EXCEPT !.shapeMetadata =
                            @ \cup {DrawnLayer(layer.stamp, type, shapeCoor)}]
        ELSE z1

\* faulty variant: the id stays in the processed set
deletedLocal_KeepsProcessed(z, layer) ==
    LET z0 == [z EXCEPT !.drawnItems = @ \ {layer}]
        z1 == IF layer \in DOMAIN z0.layerToSyncId
              THEN LET syncId == z0.layerToSyncId[layer]
                   IN  [z0 EXCEPT !.syncIdToLayer = MapDelete(@, syncId),
                                  !.layerToSyncId = MapDelete(@, layer),
                                  !.pendingLocalShapes = @ \ {syncId}]
              ELSE z0
    IN  removeShapeByID(z1, layer.stamp)

\* the DELETED handler for one layer, which the delete tool has taken off the
\* feature group; r is the replica
deletedLocal(z, layer) ==
    LET z0 == [z EXCEPT !.drawnItems = @ \ {layer}]
        z1 == IF layer \in DOMAIN z0.layerToSyncId
              THEN LET syncId == z0.layerToSyncId[layer]
                   IN  [z0 EXCEPT !.syncIdToLayer = MapDelete(@, syncId),
                                  !.layerToSyncId = MapDelete(@, layer),
                                  !.processedSyncIds = @ \ {syncId},
                                  !.pendingLocalShapes = @ \ {syncId}]
              ELSE z0
    IN  removeShapeByID(z1, layer.stamp)

\* faulty variant: a shape already processed is built again
processShape_NoSkip(z, syncedShape) ==
    LET z1 == [z EXCEPT !.pendingLocalShapes = @ \ {syncedShape.id}]
        layer == Layer(z1.lastId + 1, syncedShape.coordinates)
    IN  [z1 EXCEPT !.lastId = @ + 1,
                   !.drawnItems = @ \cup {layer},
                   !.syncIdToLayer = MapSet(@, syncedShape.id, layer),
                   !.layerToSyncId = MapSet(@, layer, syncedShape.id),
                   !.processedSyncIds = @ \cup {syncedShape.id},
                   !.shapeMetadata =
                       @ \cup {DrawnLayer(layer.stamp, syncedShape.type,
                                          syncedShape.coordinates)}]

\* faulty variant: a new shape gets its layer but no geometry-shadow entry
processShape_NoShadow(z, syncedShape) ==
    LET z1 == [z EXCEPT !.pendingLocalShapes = @ \ {syncedShape.id}]
    IN  IF syncedShape.id \in z1.processedSyncIds
        THEN z1
        ELSE IF syncedShape.type \notin LayerTypes
        THEN z1
        ELSE LET layer == Layer(z1.lastId + 1, syncedShape.coordinates)
             IN  [z1 EXCEPT !.lastId = @ + 1,
                            !.drawnItems = @ \cup {layer},
                            !.syncIdToLayer = MapSet(@, syncedShape.id, layer),
                            !.layerToSyncId = MapSet(@, layer, syncedShape.id),
                            !.processedSyncIds = @ \cup {syncedShape.id}]

\* the body of syncedShapes.forEach in the sync effect
processShape(z, syncedShape) ==
    LET z1 == [z EXCEPT !.pendingLocalShapes = @ \ {syncedShape.id}]
    IN  IF syncedShape.id \in z1.processedSyncIds
        THEN z1
        ELSE IF syncedShape.type \notin LayerTypes
        THEN z1
        ELSE LET layer == Layer(z1.lastId + 1, syncedShape.coordinates)
                 z2 == [z1 EXCEPT !.lastId = @ + 1,
                                  !.drawnItems = @ \cup {layer},
                                  !.syncIdToLayer = MapSet(@, syncedShape.id, layer),
                                  !.layerToSyncId = MapSet(@, layer, syncedShape.id),
                                  !.processedSyncIds = @ \cup {syncedShape.id}]
             IN  IF flattenShape(syncedShape.type) \in {"Circle", "Polygon"}
                 THEN [z2 EXCEPT !.shapeMetadata =
                                     @ \cup {DrawnLayer(layer.stamp, syncedShape.type,
                                                        syncedShape.coordinates)}]
                 ELSE z2

RECURSIVE forEachShape(_, _)
forEachShape(z, todo) ==
    IF todo = {}
    THEN z
    ELSE LET syncedShape == CHOOSE x \in todo : \A y \in todo : x.id <= y.id
         IN  forEachShape(processShape(z, syncedShape), todo \ {syncedShape})

\* faulty variant: the removal loop does not look at the pending set
Removable_NoPendingGuard(z, syncId, currentSyncIds) ==
    syncId \notin currentSyncIds

\* the condition of the removal loop
Removable(z, syncId, currentSyncIds) ==
    syncId \notin currentSyncIds /\ syncId \notin z.pendingLocalShapes

\* faulty variant: the geometry-shadow entry is left behind
removeShape_KeepsShadow(z, syncId) ==
    LET layer == z.syncIdToLayer[syncId]
    IN  [z EXCEPT !.drawnItems = @ \ {layer},
                  !.syncIdToLayer = MapDelete(@, syncId),
                  !.layerToSyncId = MapDelete(@, layer),
                  !.processedSyncIds = @ \ {syncId}]

\* the body of the removal loop
removeShape(z, syncId) ==
    LET layer == z.syncIdToLayer[syncId]
    IN  removeShapeByID([z EXCEPT !.drawnItems = @ \ {layer},
                                  !.syncIdToLayer = MapDelete(@, syncId),
                                  !.layerToSyncId = MapDelete(@, layer),
                                  !.processedSyncIds = @ \ {syncId}],
                        layer.stamp)

RECURSIVE removeEach(_, _)
removeEach(z, todo) ==
    IF todo = {}
    THEN z
    ELSE LET syncId == CHOOSE x \in todo : \A y \in todo : x <= y
         IN  removeEach(removeShape(z, syncId), todo \ {syncId})

\* the sync effect on a snapshot of the document's shapes
syncEffect(z, snapshot) ==
    LET currentSyncIds == {syncedShape.id : syncedShape \in snapshot}
        z1 == forEachShape(z, snapshot)
    IN  removeEach(z1, {syncId \in DOMAIN z1.syncIdToLayer :
                           Removable(z1, syncId, currentSyncIds)})

\* faulty variant: the pending set is not cleared
clearLocal_KeepsPending(z) ==
    [NoZones EXCEPT !.lastId = z.lastId,
                    !.pendingLocalShapes = z.pendingLocalShapes]

\* the local part of clearArrangement (L.stamp's counter is the page's)
clearLocal(z) == [NoZones EXCEPT !.lastId = z.lastId]

\* aout when the last zone operation was not a run of the audio effect
NoAudio == [op |-> "none", peer |-> "none", hit |-> {}, sounds |-> {}]

\* the soundId of the DrawnLayer of each flat shape of z: as stored, and for a
\* new DrawnLayer the soundId of its record in replica r (null for a zone
\* drawn locally, whose record has no assignment yet)
metadataSound(old, z, r) ==
    [stamp \in {m.id : m \in z.shapeMetadata} |->
        IF stamp \in DOMAIN old
        THEN old[stamp]
        ELSE LET layer == CHOOSE l \in z.drawnItems : l.stamp = stamp
                 syncId == z.layerToSyncId[layer]
             IN  IF syncId \in {e.id : e \in Entries(r)}
                 THEN soundOf(r, syncId)
                 ELSE "null"]

ZCommit(p, z) ==
    /\ shadowSound' = [shadowSound EXCEPT ![p] = metadataSound(@, z, shapes[p])]
    /\ aout' = NoAudio
    /\ drawnItems' = [drawnItems EXCEPT ![p] = z.drawnItems]
    /\ syncIdToLayer' = [syncIdToLayer EXCEPT ![p] = z.syncIdToLayer]
    /\ layerToSyncId' = [layerToSyncId EXCEPT ![p] = z.layerToSyncId]
    /\ processedSyncIds' = [processedSyncIds EXCEPT ![p] = z.processedSyncIds]
    /\ pendingLocalShapes' = [pendingLocalShapes EXCEPT ![p] = z.pendingLocalShapes]
    /\ shapeMetadata' = [shapeMetadata EXCEPT ![p] = z.shapeMetadata]
    /\ lastId' = [lastId EXCEPT ![p] = z.lastId]

\* zout after an operation: of the sync effect and clearArrangement, which one
\* and where; of the others, that it was another
ZOut(op, p) ==
    IF op \in {"syncEffect", "clearArrangement"}
    THEN [op |-> op, peer |-> p]
    ELSE [op |-> "other", peer |-> "none"]

\* the user of peer p finishes drawing a shape: the CREATED handler
CreateShape(p, type) ==
    /\ minted < MaxZones
    /\ lastId[p] < MaxStamps
    /\ LET syncId == minted + 1
           shapeCoor == minted + 1
       IN  /\ shapes' = [shapes EXCEPT
                            ![p] = addShape(docReady[p], @, p, syncId, type, shapeCoor)]
           /\ ZCommit(p, created(Zones(p), syncId, type, shapeCoor))
    /\ minted' = minted + 1
    /\ zout' = ZOut("created", p)
    /\ UNCHANGED <<timing, docReady, clearedPending>>

\* the user of peer p deletes a layer with the delete tool: the DELETED handler
DeleteLayer(p, layer) ==
    /\ layer \in drawnItems[p]
    /\ shapes' = [shapes EXCEPT
                     ![p] = IF layer \in DOMAIN layerToSyncId[p]
                            THEN deleteShape(docReady[p], @, layerToSyncId[p][layer])
                            ELSE @]
    /\ ZCommit(p, deletedLocal(Zones(p), layer))
    /\ zout' = ZOut("deleted", p)
    /\ UNCHANGED <<timing, docReady, minted, clearedPending>>

\* a notification of the document at peer p: the sync effect runs on the
\* shapes of the peer's replica
SyncEffect(p) ==
    /\ syncEffect(Zones(p), syncedShapes(p)).lastId <= MaxStamps
    /\ ZCommit(p, syncEffect(Zones(p), syncedShapes(p)))
    /\ zout' = ZOut("syncEffect", p)
    /\ UNCHANGED <<timing, docReady, shapes, minted, clearedPending>>

\* the user of peer p clears the arrangement
clearArrangement(p) ==
    /\ NextCounter(shapes[p]) <= MaxMaps
    /\ ZCommit(p, clearLocal(Zones(p)))
    /\ shapes' = [shapes EXCEPT ![p] = clearAllShapes(docReady[p], @, p)]
    /\ clearedPending' = [clearedPending EXCEPT ![p] = @ \cup pendingLocalShapes[p]]
    /\ zout' = ZOut("clearArrangement", p)
    /\ UNCHANGED <<timing, docReady, minted>>

\* replica p receives replica q's changes from the sync server
MergeShapes(p, q) ==
    /\ p # q /\ docReady[p] /\ docReady[q]
    /\ ~(shapes[q] \subseteq shapes[p])
    /\ shapes' = [shapes EXCEPT ![p] = @ \cup shapes[q]]
    /\ zout' = ZOut("merge", p)
    /\ UNCHANGED <<timing, docReady, drawnItems, syncIdToLayer, layerToSyncId,
                   processedSyncIds, pendingLocalShapes, shapeMetadata, lastId,
                   minted, clearedPending, shadowSound>>
    /\ aout' = NoAudio

\* The operations of the document hook, called by any caller with any id: the
\* log says whether the replica was ready and whether the id was in its shapes
\* map when the call was made.
ShapeIds == 1..(MaxZones + 1)

DocOut(op, p, id) ==
    [op |-> op, peer |-> p, id |-> id, ready |-> docReady[p],
     stale |-> id \notin Keys(shapes[p])]

\* what a call of a document operation leaves alone
DocFrame ==
    /\ aout' = NoAudio
    /\ UNCHANGED <<timing, docReady, drawnItems, syncIdToLayer, layerToSyncId,
                   processedSyncIds, pendingLocalShapes, shapeMetadata, lastId,
                   clearedPending, shadowSound>>

addShapeCall(p, type) ==
    /\ minted < MaxZones
    /\ shapes' = [shapes EXCEPT
                     ![p] = addShape(docReady[p], @, p, minted + 1, type, minted + 1)]
    /\ minted' = minted + 1
    /\ zout' = DocOut("addShape", p, minted + 1)
    /\ DocFrame

updateShapeSoundCall(p, shapeId, soundId) ==
    /\ Cardinality({x \in shapes[p] : x.k \in {"snd", "crd"}}) < MaxSounds
    /\ shapes' = [shapes EXCEPT
                     ![p] = updateShapeSound(docReady[p], @, p, shapeId, soundId)]
    /\ zout' = DocOut("updateShapeSound", p, shapeId)
    /\ UNCHANGED minted
    /\ DocFrame

updateShapeCoordinatesCall(p, shapeId, coordinates) ==
    /\ Cardinality({x \in shapes[p] : x.k \in {"snd", "crd"}}) < MaxSounds
    /\ shapes' = [shapes EXCEPT
                     ![p] = updateShapeCoordinates(docReady[p], @, p, shapeId,
                                                   coordinates)]
    /\ zout' = DocOut("updateShapeCoordinates", p, shapeId)
    /\ UNCHANGED minted
    /\ DocFrame

deleteShapeCall(p, shapeId) ==
    /\ shapes' = [shapes EXCEPT ![p] = deleteShape(docReady[p], @, shapeId)]
    /\ zout' = DocOut("deleteShape", p, shapeId)
    /\ UNCHANGED minted
    /\ DocFrame

clearAllShapesCall(p) ==
    /\ NextCounter(shapes[p]) <= MaxMaps
    /\ shapes' = [shapes EXCEPT ![p] = clearAllShapes(docReady[p], @, p)]
    /\ zout' = DocOut("clearAllShapes", p, 0)
    /\ UNCHANGED minted
    /\ DocFrame

\* the files the model imports: the `shapes` array of an arrangement, by the
\* types of its entries
Files ==
    {<<>>, <<"circle">>, <<"marker">>, <<"marker", "circle">>,
     <<"circle", "marker">>}

\* the zones of a file that are not markers
RECURSIVE Zoned(_)
Zoned(file) ==
    IF file = <<>>
    THEN 0
    ELSE (IF Head(file) = "marker" THEN 0 ELSE 1) + Zoned(Tail(file))

\* faulty variant: markers are written to the document as well
RECURSIVE importShapes_KeepsMarkers(_, _, _, _, _)
importShapes_KeepsMarkers(ready, r, p, file, n) ==
    IF file = <<>>
    THEN r
    ELSE importShapes_KeepsMarkers(
             ready, addShape(ready, r, p, n + 1, Head(file), n + 1), p,
             Tail(file), n + 1)

\* importedData.shapes.forEach of importArrangement: n ids are minted so far
RECURSIVE importShapes(_, _, _, _, _)
importShapes(ready, r, p, file, n) ==
    IF file = <<>>
    THEN r
    ELSE IF Head(file) = "marker"
    THEN importShapes(ready, r, p, Tail(file), n)
    ELSE importShapes(
             ready, addShape(ready, r, p, n + 1, Head(file), n + 1), p,
             Tail(file), n + 1)

\* the user of peer p imports an arrangement file: clearArrangement, then
\* addShape for each shape that is not a marker
importArrangement(p, file) ==
    /\ NextCounter(shapes[p]) <= MaxMaps
    /\ minted + Zoned(file) <= MaxZones
    /\ ZCommit(p, clearLocal(Zones(p)))
    /\ shapes' = [shapes EXCEPT
                     ![p] = importShapes(docReady[p],
                                         clearAllShapes(docReady[p], @, p),
                                         p, file, minted)]
    /\ clearedPending' = [clearedPending EXCEPT ![p] = @ \cup pendingLocalShapes[p]]
    /\ minted' = minted + Zoned(file)
    /\ zout' = [op |-> "importArrangement", peer |-> p, ready |-> docReady[p],
                ids |-> (minted + 1)..(minted + Zoned(file))]
    /\ UNCHANGED <<timing, docReady>>

\* importedData.forEach of the branch for the old format, a bare array: every
\* entry that has a type and coordinates is written, a marker too
RECURSIVE importOldShapes(_, _, _, _, _)
importOldShapes(ready, r, p, file, n) ==
    IF file = <<>>
    THEN r
    ELSE importOldShapes(
             ready, addShape(ready, r, p, n + 1, Head(file), n + 1), p,
             Tail(file), n + 1)

\* the user of peer p imports a file of the old format
importOldArrangement(p, file) ==
    /\ NextCounter(shapes[p]) <= MaxMaps
    /\ minted + Len(file) <= MaxZones
    /\ ZCommit(p, clearLocal(Zones(p)))
    /\ shapes' = [shapes EXCEPT
                     ![p] = importOldShapes(docReady[p],
                                            clearAllShapes(docReady[p], @, p),
                                            p, file, minted)]
    /\ clearedPending' = [clearedPending EXCEPT ![p] = @ \cup pendingLocalShapes[p]]
    /\ minted' = minted + Len(file)
    /\ zout' = [op |-> "importArrangement", peer |-> p, ready |-> docReady[p],
                ids |-> (minted + 1)..(minted + Len(file))]
    /\ UNCHANGED <<timing, docReady>>

\* handleSoundSelect at peer p, the dropdown opened by a click on the layer of
\* zone syncId
handleSoundSelect(p, syncId, soundId) ==
    /\ syncId \in DOMAIN syncIdToLayer[p]
    /\ Cardinality({x \in shapes[p] : x.k = "snd"}) < MaxSounds
    /\ shapes' = [shapes EXCEPT
                     ![p] = updateShapeSound(docReady[p], @, p, syncId, soundId)]
    /\ zout' = ZOut("sound", p)
    /\ UNCHANGED <<timing, docReady, drawnItems, syncIdToLayer, layerToSyncId,
                   processedSyncIds, pendingLocalShapes, shapeMetadata, lastId,
                   minted, clearedPending, shadowSound>>
    /\ aout' = NoAudio

\* the sync id the audio effect finds for a DrawnLayer: the key of
\* syncIdToLayerRef whose layer has the DrawnLayer's stamp, if any
SyncIdOf(p, metadata) ==
    LET found == {id \in DOMAIN syncIdToLayer[p] :
                     syncIdToLayer[p][id].stamp = metadata.id}
    IN  IF found = {} THEN None ELSE Some(CHOOSE id \in found : TRUE)

\* faulty variant: the sound is the one the DrawnLayer stores
audioSounds_FromShadow(p, hit) ==
    {[stamp |-> m.id, soundId |-> shadowSound[p][m.id]] :
        m \in {x \in hit : shadowSound[p][x.id] # "null"}}

\* the sounds the audio effect collects for the shapes hit (collided or
\* nearby): for each, the soundId of the record of its sync id in syncedShapes
audioSounds(p, hit) ==
    {[stamp |-> m.id, soundId |-> soundOf(shapes[p], The(SyncIdOf(p, m)))] :
        m \in {x \in hit :
                  /\ SyncIdOf(p, x) # None
                  /\ The(SyncIdOf(p, x)) \in SyncIds(p)
                  /\ soundOf(shapes[p], The(SyncIdOf(p, x))) # "null"}}

\* a run of the audio effect at peer p past its throttle, the user's position
\* hitting the shapes `hit`
AudioEffect(p, hit) ==
    /\ aout' =
          [op |-> "audio", peer |-> p,
           hit |-> IF isAudioEnabled[p] /\ Playing(p) THEN hit ELSE {},
           sounds |-> IF isAudioEnabled[p] /\ Playing(p)
                      THEN audioSounds(p, hit)
                      ELSE {}]
    /\ UNCHANGED <<tvars, drawnItems, syncIdToLayer, layerToSyncId,
                   processedSyncIds, pendingLocalShapes, shapeMetadata, lastId,
                   shapes, minted, zout, clearedPending, shadowSound, player,
                   effectDeps, rendered,
                   soundPlayer, gpTransport, users>>

\* The audio effect with its throttle and the key of the sounds it applied.
THROTTLE_MS == 500

\* the volumes (in percent) the effect computes: 100 for a shape the user is
\* in, less for a shape nearby
Volumes == {50, 100}

\* soundsKey: the soundIds of the sounds, sorted and joined; '' is NoKey
Key(sounds) ==
    [soundId \in SoundIds \ {"null"} |->
        Cardinality({s \in sounds : s.soundId = soundId})]
NoKey == Key({})

NoCall == [f |-> "none", sounds |-> {}]

NoPlayer ==
    [lastCalculation |-> 0, currentSounds |-> NoKey, applied |-> {},
     run |-> "none", call |-> NoCall]

\* soundPlayer.stopAll() and soundPlayer.playMultipleWithVolume(sounds)
stopAll(pl) ==
    [pl EXCEPT !.applied = {}, !.call = [f |-> "stopAll", sounds |-> {}]]
playMultipleWithVolume(pl, sounds) ==
    [pl EXCEPT !.applied = sounds,
               !.call = [f |-> "playMultipleWithVolume", sounds |-> sounds]]

\* the body of the effect at clock t: enabled is isAudioEnabled, playing is
\* transportState?.isPlaying, drawn is drawnShapes.length > 0 and sounds are
\* the sounds collected for the user's position
audioEffectRun(pl, t, enabled, playing, drawn, sounds) ==
    IF t - pl.lastCalculation < THROTTLE_MS
    THEN [pl EXCEPT !.run = "throttled", !.call = NoCall]
    ELSE LET pl1 == [pl EXCEPT !.lastCalculation = t, !.run = "ran",
                               !.call = NoCall]
         IN  IF ~enabled \/ ~playing
             THEN IF pl1.currentSounds # NoKey
                  THEN [stopAll(pl1) EXCEPT !.currentSounds = NoKey]
                  ELSE pl1
             ELSE IF ~drawn
             THEN pl1
             ELSE IF Key(sounds) # pl1.currentSounds
             THEN LET pl2 == [pl1 EXCEPT !.currentSounds = Key(sounds)]
                  IN  IF sounds # {}
                      THEN playMultipleWithVolume(pl2, sounds)
                      ELSE stopAll(pl2)
             ELSE IF sounds # {}
             THEN playMultipleWithVolume(pl1, sounds)
             ELSE pl1

\* the sounds whose definition creates a Tone.Loop or a Tone.Pattern
Loops == {"pad"}

\* what the call the SoundPlayer received does to the Tone transport tr: stopAll
\* stops it; triggerSound, run for each sound that was not in soundMap (old),
\* starts it for a Loop or a Pattern
playerEngine(tr, old, call) ==
    IF call.f = "stopAll"
    THEN [tr EXCEPT !.state = "stopped", !.seconds = 0]
    ELSE IF /\ call.f = "playMultipleWithVolume"
            /\ \E s \in call.sounds :
                  /\ s.soundId \in Loops
                  /\ s.soundId \notin {x.soundId : x \in old}
    THEN [tr EXCEPT !.state = "started"]
    ELSE tr

\* a run of the audio effect at peer p, the user's position hitting the shapes
\* `hit` at volume `volume`
audioEffect(p, hit, volume) ==
    LET pl == audioEffectRun(player[p], now, isAudioEnabled[p], Playing(p),
                             shapeMetadata[p] # {},
                             {[stamp |-> s.stamp, soundId |-> s.soundId,
                               volume |-> volume] : s \in audioSounds(p, hit)})
    IN  /\ player' = [player EXCEPT ![p] = pl]
        /\ transport' = [transport EXCEPT
                            ![p] = playerEngine(@, player[p].applied, pl.call)]
        /\ UNCHANGED <<now, isInitialized, currentState, updateInterval,
                       onBpmChangeCallback, pendingTimers, isAudioEnabled,
                       timingSyncReady, docReady, docTransport, out, playStreak,
                       drawnItems, syncIdToLayer, layerToSyncId,
                       processedSyncIds, pendingLocalShapes, shapeMetadata,
                       lastId, shapes, minted, zout, clearedPending,
                       shadowSound, aout, effectDeps, rendered,
                       soundPlayer, gpTransport, users>>

\* handleStopAudio: the user switches audio off; the SoundPlayer's stopAll()
\* stops the engine; TimingSync is not told
handleStopAudio(p) ==
    /\ isAudioEnabled[p]
    /\ isAudioEnabled' = [isAudioEnabled EXCEPT ![p] = FALSE]
    /\ player' = [player EXCEPT ![p] = [stopAll(@) EXCEPT !.currentSounds = NoKey]]
    /\ transport' = [transport EXCEPT
                        ![p] = playerEngine(@, {}, [f |-> "stopAll", sounds |-> {}])]
    /\ UNCHANGED <<now, isInitialized, currentState, updateInterval,
                   onBpmChangeCallback, pendingTimers, timingSyncReady, docReady,
                   docTransport, out, playStreak, drawnItems, syncIdToLayer,
                   layerToSyncId, processedSyncIds, pendingLocalShapes,
                   shapeMetadata, lastId, shapes, minted, zout, clearedPending,
                   shadowSound, aout, effectDeps, rendered,
                   soundPlayer, gpTransport, users>>

\* the clock advances by d
Elapse(d) ==
    /\ now + d <= Epoch + MaxSteps * THROTTLE_MS
    /\ now' = now + d
    /\ UNCHANGED <<zvars, isInitialized, currentState, updateInterval,
                   onBpmChangeCallback, transport, pendingTimers, isAudioEnabled,
                   timingSyncReady, docReady, docTransport, out, playStreak>>

\* The SoundPlayer's map of sounds by id, with the timeouts of stopSound.
\* bound: the sounds (instances) the SoundPlayer creates, and the timeouts of
\* stopSound pending at a time
MaxInstances == 2

\* the delay of the timeout of stopSound, in ms
DestroyDelay == 150

NoSoundPlayer ==
    [soundMap |-> NoEntries, activeSounds |-> {}, timers |-> <<>>, created |-> 0,
     call |-> NoCall]

\* stopSound(soundId) at clock t: the sound fades, and a timeout is set that
\* will destroy it and delete the id from soundMap
stopSound(sp, soundId, t) ==
    IF soundId \in DOMAIN sp.soundMap
    THEN [sp EXCEPT !.timers = Append(@, [due |-> t + DestroyDelay,
                                          soundId |-> soundId,
                                          sound |-> sp.soundMap[soundId]])]
    ELSE sp

\* the callback of the timeout of stopSound
stopSoundTimeout(sp, timer) ==
    [sp EXCEPT !.soundMap = MapDelete(@, timer.soundId),
               !.activeSounds = @ \ {timer.sound}]

RECURSIVE stopEach(_, _, _)
stopEach(sp, soundsToStop, t) ==
    IF soundsToStop = {}
    THEN sp
    ELSE LET soundId == CHOOSE x \in soundsToStop : TRUE
         IN  stopEach(stopSound(sp, soundId, t), soundsToStop \ {soundId}, t)

\* the loop "Start new sounds or update existing ones": a sound whose id is in
\* soundMap has its gain set, another is created and entered
RECURSIVE startEach(_, _)
startEach(sp, incoming) ==
    IF incoming = {}
    THEN sp
    ELSE LET soundId == CHOOSE x \in incoming : TRUE
             sp1 == IF soundId \in DOMAIN sp.soundMap
                    THEN sp
                    ELSE [sp EXCEPT !.created = @ + 1,
                                    !.soundMap = MapSet(@, soundId, sp.created + 1),
                                    !.activeSounds = @ \cup {sp.created + 1}]
         IN  startEach(sp1, incoming \ {soundId})

\* SoundPlayer.playMultipleWithVolume(sounds) at clock t, by the ids of the
\* sounds
soundMapPlayMultipleWithVolume(sp, incomingSoundIds, t) ==
    LET sp1 == stopEach(sp, DOMAIN sp.soundMap \ incomingSoundIds, t)
    IN  [startEach(sp1, incomingSoundIds) EXCEPT
            !.call = [f |-> "playMultipleWithVolume", sounds |-> incomingSoundIds]]

\* SoundPlayer.stopAll(): the timeouts already set stay set
soundMapStopAll(sp) ==
    [sp EXCEPT !.soundMap = NoEntries, !.activeSounds = {},
               !.call = [f |-> "stopAll", sounds |-> {}]]

\* what a call of the SoundPlayer leaves alone
PlayerFrame ==
    UNCHANGED <<tvars, drawnItems, syncIdToLayer, layerToSyncId,
                processedSyncIds, pendingLocalShapes, shapeMetadata, lastId,
                shapes, minted, zout, clearedPending, shadowSound, aout, player,
                effectDeps, rendered, gpTransport, users>>

\* every timeout that is due has fired
NoneDue ==
    IF soundPlayer.timers = <<>> THEN TRUE ELSE now < Head(soundPlayer.timers).due

playMultipleWithVolumeCall(incomingSoundIds) ==
    /\ NoneDue
    /\ soundMapPlayMultipleWithVolume(soundPlayer, incomingSoundIds, now).created
          <= MaxInstances
    /\ Len(soundMapPlayMultipleWithVolume(soundPlayer, incomingSoundIds, now).timers)
          <= MaxInstances
    /\ soundPlayer' = soundMapPlayMultipleWithVolume(soundPlayer, incomingSoundIds, now)
    /\ PlayerFrame

stopSoundCall(soundId) ==
    /\ NoneDue
    /\ Len(stopSound(soundPlayer, soundId, now).timers) <= MaxInstances
    /\ soundPlayer' = [stopSound(soundPlayer, soundId, now) EXCEPT
                          !.call = [f |-> "stopSound", sounds |-> {soundId}]]
    /\ PlayerFrame

stopAllCall ==
    /\ NoneDue
    /\ soundPlayer' = soundMapStopAll(soundPlayer)
    /\ PlayerFrame

\* the first timeout of stopSound fires
stopSoundTimeoutFires ==
    /\ soundPlayer.timers # <<>>
    /\ now >= Head(soundPlayer.timers).due
    /\ soundPlayer' = [stopSoundTimeout(soundPlayer, Head(soundPlayer.timers))
                          EXCEPT !.timers = Tail(@)]
    /\ PlayerFrame

\* the clock advances by d, up to the time the next timeout is due
PlayerElapse(d) ==
    /\ now + d <= Epoch + MaxSteps * DestroyDelay
    /\ IF soundPlayer.timers = <<>>
       THEN TRUE
       ELSE now + d <= Head(soundPlayer.timers).due
    /\ now' = now + d
    /\ UNCHANGED <<zvars, isInitialized, currentState, updateInterval,
                   onBpmChangeCallback, transport, pendingTimers, isAudioEnabled,
                   timingSyncReady, docReady, docTransport, out, playStreak>>

(***************************************************************************)
(* The transport of the GPSound document (useAutomergeDoc) and the effect  *)
(* "Initialize transport when audio is first enabled".  Each peer changes  *)
(* its own replica; d.transport is one key of the document, so of two      *)
(* concurrent assignments the same one wins in every replica (Newer).      *)
(***************************************************************************)
NoGPTransport ==
    [doc |-> [p \in Peers |-> NoTransport],
     deps |-> [p \in Peers |-> None],
     isTransportMaster |-> [p \in Peers |-> FALSE],
     becameMaster |-> {}]

\* the dependencies of the effect: isAudioEnabled, and the callbacks, which
\* are made anew when changeDoc or doc changes
MasterDeps(p) == <<isAudioEnabled[p], docReady[p], gpTransport.doc[p]>>

\* initializeTransportIfNeeded() of user p on its replica reg at time t; ready
\* says that changeDoc and doc are there
initializeTransportIfNeeded(reg, p, ready, t) ==
    IF ~ready THEN [doc |-> reg, ret |-> FALSE]
    ELSE IF reg.val # None THEN [doc |-> reg, ret |-> FALSE]
    ELSE [doc |-> [ver |-> reg.ver + 1, by |-> p,
                   val |-> <<[bpm |-> DefaultBpm, isPlaying |-> FALSE,
                              position |-> "0:0:0", lastUpdated |-> t,
                              masterId |-> p]>>],
          ret |-> TRUE]

\* soundPlayer.getTransportState(masterId) after initializeTransport(120), on
\* an engine that is at its start
getTransportState(p, masterId, t) ==
    [bpm |-> DefaultBpm, isPlaying |-> transport[p].state = "started",
     position |-> "0:0:0", lastUpdated |-> t, masterId |-> masterId]

\* the effect "Initialize transport when audio is first enabled" of peer p
initializeTransportEffect(p) ==
    /\ isAudioEnabled[p]
    /\ gpTransport.deps[p] # <<MasterDeps(p)>>
    /\ LET r == initializeTransportIfNeeded(gpTransport.doc[p], p, docReady[p], now)
           reg == IF r.ret
                  THEN updateTransportState(docReady[p], r.doc, p,
                                            getTransportState(p, p, now))
                  ELSE r.doc
       IN  gpTransport' =
              [gpTransport EXCEPT
                  !.doc[p] = reg,
                  !.deps[p] = <<MasterDeps(p)>>,
                  !.isTransportMaster[p] = r.ret,
                  !.becameMaster = IF r.ret THEN @ \cup {p} ELSE @]
    /\ UNCHANGED <<tvars, drawnItems, syncIdToLayer, layerToSyncId,
                   processedSyncIds, pendingLocalShapes, shapeMetadata, lastId,
                   shapes, minted, zout, clearedPending, shadowSound, aout,
                   player, effectDeps, rendered, soundPlayer, users>>

\* replica p receives the change of replica q to d.transport
MergeGPTransport(p, q) ==
    /\ p # q /\ docReady[p] /\ docReady[q]
    /\ Newer(gpTransport.doc[q], gpTransport.doc[p])
    /\ gpTransport' = [gpTransport EXCEPT !.doc[p] = gpTransport.doc[q]]
    /\ UNCHANGED <<tvars, drawnItems, syncIdToLayer, layerToSyncId,
                   processedSyncIds, pendingLocalShapes, shapeMetadata, lastId,
                   shapes, minted, zout, clearedPending, shadowSound, aout,
                   player, effectDeps, rendered, soundPlayer, users>>

(***************************************************************************)
(* User presence (useAutomergeDoc): the record d.users[userId], which only *)
(* the tab of that user writes.  hiddenSince is None when the record has   *)
(* no such key.                                                            *)
(***************************************************************************)
NoUsers ==
    [doc |-> [p \in Peers |-> None],
     hidden |-> [p \in Peers |-> FALSE],
     mounted |-> [p \in Peers |-> FALSE],
     last |-> [p \in Peers |-> None]]

\* faulty variant: every update of a hidden tab stamps hiddenSince anew
updatePresence_Restamps(user, userId, t, hidden) ==
    IF user = None
    THEN Some([id |-> userId, connectedAt |-> t, lastSeen |-> t,
               hiddenSince |-> IF hidden THEN Some(t) ELSE None])
    ELSE Some([The(user) EXCEPT
                  !.lastSeen = t,
                  !.hiddenSince = IF hidden THEN Some(t) ELSE None])

\* updatePresence() at time t of the tab of userId, whose record in the
\* document is user (None: no record) and whose document.hidden is hidden
updatePresence(user, userId, t, hidden) ==
    IF user = None
    THEN Some([id |-> userId, connectedAt |-> t, lastSeen |-> t,
               hiddenSince |-> IF hidden THEN Some(t) ELSE None])
    ELSE Some([The(user) EXCEPT
                  !.lastSeen = t,
                  !.hiddenSince = IF ~hidden THEN None
                                  ELSE IF @ = None THEN Some(t)
                                  ELSE @])

UsersFrame ==
    UNCHANGED <<tvars, drawnItems, syncIdToLayer, layerToSyncId,
                processedSyncIds, pendingLocalShapes, shapeMetadata, lastId,
                shapes, minted, zout, clearedPending, shadowSound, aout, player,
                effectDeps, rendered, soundPlayer, gpTransport>>

\* one call of updatePresence by the tab of p whose document.hidden is hidden;
\* the log keeps the record before the call, the flag and the run of hidden
\* updates the call belongs to
UpdatePresence(p, hidden, mounted) ==
    users' = [users EXCEPT
                 !.doc[p] = updatePresence(@, p, now, hidden),
                 !.hidden[p] = hidden,
                 !.mounted[p] = mounted,
                 !.last[p] =
                     Some([pre |-> users.doc[p], hidden |-> hidden,
                           first |-> IF users.doc[p] = None THEN now
                                     ELSE The(@).first,
                           since |-> IF ~hidden THEN None
                                     ELSE IF @ # None /\ The(@).hidden
                                     THEN The(@).since
                                     ELSE Some(now)])]

\* the presence effect runs once changeDoc is there: the initial update
presenceEffect(p) ==
    /\ docReady[p] /\ ~users.mounted[p]
    /\ UpdatePresence(p, users.hidden[p], TRUE)
    /\ UsersFrame

\* setInterval(updatePresence, 5000)
heartbeat(p) ==
    /\ users.mounted[p]
    /\ UpdatePresence(p, users.hidden[p], TRUE)
    /\ UsersFrame

\* the tab is hidden or shown: document.hidden changes, and the listener, if
\* the effect has added it, calls updatePresence
handleVisibilityChange(p) ==
    /\ IF users.mounted[p]
       THEN UpdatePresence(p, ~users.hidden[p], TRUE)
       ELSE users' = [users EXCEPT !.hidden[p] = ~@]
    /\ UsersFrame

\* the page is loaded again in the same tab: the user id of the session is
\* kept, the effect is to run again
reload(p) ==
    /\ users.mounted[p]
    /\ users' = [users EXCEPT !.mounted[p] = FALSE]
    /\ UsersFrame

ZInit ==
    /\ drawnItems = [p \in Peers |-> {}]
    /\ syncIdToLayer = [p \in Peers |-> NoEntries]
    /\ layerToSyncId = [p \in Peers |-> NoEntries]
    /\ processedSyncIds = [p \in Peers |-> {}]
    /\ pendingLocalShapes = [p \in Peers |-> {}]
    /\ shapeMetadata = [p \in Peers |-> {}]
    /\ lastId = [p \in Peers |-> 0]
    /\ shapes = [p \in Peers |-> {}]
    /\ minted = 0
    /\ zout = [op |-> "other", peer |-> "none"]
    /\ clearedPending = [p \in Peers |-> {}]
    /\ shadowSound = [p \in Peers |-> NoEntries]
    /\ aout = NoAudio
    /\ player = [p \in Peers |-> NoPlayer]
    /\ effectDeps = [p \in Peers |-> Deps(p)]
    /\ rendered = [p \in Peers |-> [shapes |-> {}, pending |-> FALSE]]
    /\ soundPlayer = NoSoundPlayer
    /\ gpTransport = NoGPTransport
    /\ users = NoUsers

Init ==
    /\ now = Epoch
    /\ isInitialized = [p \in Peers |-> FALSE]
    /\ currentState = [p \in Peers |-> TState(Null, DefaultBpm, FALSE)]
    /\ updateInterval = [p \in Peers |-> "null"]
    /\ onBpmChangeCallback = [p \in Peers |-> FALSE]
    /\ transport = [p \in Peers |-> [state |-> "stopped", seconds |-> 0, bpm |-> DefaultBpm]]
    /\ pendingTimers = [p \in Peers |-> 0]
    /\ isAudioEnabled = [p \in Peers |-> FALSE]
    /\ timingSyncReady = [p \in Peers |-> FALSE]
    /\ docReady = [p \in Peers |-> FALSE]
    /\ docTransport = [p \in Peers |-> NoTransport]
    /\ out = [op |-> "none", peer |-> "none", t |-> Epoch,
              pre |-> [isInitialized |-> FALSE,
                       currentState |-> TState(Null, DefaultBpm, FALSE),
                       transport |-> [state |-> "stopped", seconds |-> 0,
                                      bpm |-> DefaultBpm]],
              ret |-> None, calls |-> <<>>]
    /\ playStreak = [p \in Peers |-> None]
    /\ ZInit

(***************************************************************************)
(* Spec: one TimingSync instance under every order of calls of its public  *)
(* methods, its corrector timer and the clock.  The states handed to       *)
(* syncFromRemote are the ones a peer publishes: stopped, or playing since *)
(* a clock value that has been reached.                                    *)
(***************************************************************************)
Local == "A"

RemoteStates ==
    {TState(Null, b, FALSE) : b \in BPMs}
        \cup {TState(T, b, TRUE) : T \in {x \in Times : x <= now}, b \in BPMs}

Next ==
    \/ \E b \in BPMs : Initialize(Local, b)
    \/ Destroy(Local)
    \/ Play(Local)
    \/ Pause(Local)
    \/ \E b \in BPMs : SetBPM(Local, b)
    \/ \E state \in RemoteStates : SyncFromRemote(Local, state)
    \/ OnBpmChange(Local)
    \/ Tick(Local)
    \/ \E x \in EngineSteps : Advance(Step, [p \in Peers |-> x])

Spec == Init /\ [][Next]_vars

(***************************************************************************)
(* SpecTempo: the same instance when setBPM is handed any number, as its   *)
(* signature allows: also one that is not positive and one above 400.      *)
(***************************************************************************)
Tempi == BPMs \cup {0, 401}

NextTempo ==
    \/ \E b \in BPMs : Initialize(Local, b)
    \/ Destroy(Local)
    \/ Play(Local)
    \/ Pause(Local)
    \/ \E b \in Tempi : SetBPM(Local, b)
    \/ Tick(Local)
    \/ \E x \in EngineSteps : Advance(Step, [p \in Peers |-> x])

SpecTempo == Init /\ [][NextTempo]_vars

(***************************************************************************)
(* SpecCadence: the instance with the delays of its corrector timeouts.    *)
(***************************************************************************)
NextCadence ==
    \/ \E b \in BPMs : Initialize(Local, b)
    \/ Destroy(Local)
    \/ Play(Local)
    \/ Pause(Local)
    \/ \E r \in Randoms : TickAfter(Local, r)
    \/ \E x \in EngineSteps : Advance(Step, [p \in Peers |-> x])

SpecCadence == Init /\ [][NextCadence]_vars

(***************************************************************************)
(* SpecEngine: one peer's transport handlers over an engine whose start()  *)
(* and stop() may throw.                                                   *)
(***************************************************************************)
NextEngine ==
    \/ DocumentReady(Local)
    \/ handleUpdateMarkerAudio(Local)
    \/ initializeTiming(Local)
    \/ handleTransportStart(Local)
    \/ handleTransportStop(Local)
    \/ handleTransportStartThrows(Local)
    \/ handleTransportStopThrows(Local)
    \/ \E x \in EngineSteps : Advance(Step, [p \in Peers |-> x])

SpecEngine == Init /\ [][NextEngine]_vars

(***************************************************************************)
(* SpecDoc: the operations of the document hook on two replicas, called    *)
(* with ids that are in the shapes map and ids that are not.  One peer     *)
(* adds zones and clears, the other assigns sounds and coordinates.        *)
(***************************************************************************)
NextDoc ==
    \/ \E p \in Peers : DocumentReady(p)
    \/ \E p \in Peers \ {Local} : addShapeCall(p, "circle")
    \/ \E id \in ShapeIds : updateShapeSoundCall(Local, id, "kick")
    \/ \E id \in ShapeIds : updateShapeCoordinatesCall(Local, id, 0)
    \/ \E id \in ShapeIds : deleteShapeCall(Local, id)
    \/ \E p \in Peers \ {Local} : \E id \in SyncIds(p) : deleteShapeCall(p, id)
    \/ \E p \in Peers \ {Local} : clearAllShapesCall(p)
    \/ \E p, q \in Peers : MergeShapes(p, q)

SpecDoc == Init /\ [][NextDoc]_vars

(***************************************************************************)
(* SpecPeers: two peers running the component (its effects and transport   *)
(* handlers) over their replicas of the shared document, with the          *)
(* corrector timers and teardown.  The clock makes one step, which the     *)
(* engines keep pace with.                                                 *)
(***************************************************************************)
NextPeers ==
    \/ \E p \in Peers : handleUpdateMarkerAudio(p)
    \/ \E p \in Peers : initializeTiming(p)
    \/ \E p \in Peers : transportSyncEffect(p)
    \/ \E p \in Peers : handleTransportStart(p)
    \/ \E p \in Peers : handleTransportStop(p)
    \/ \E p \in Peers, b \in BPMs : handleBPMChange(p, b)
    \/ \E p \in Peers : DocumentReady(p)
    \/ \E p, q \in Peers : MergeTransport(p, q)
    \/ \E p \in Peers : Tick(p)
    \/ \E p \in Peers : Destroy(p)
    \/ now = Epoch /\ Advance(Step, [p \in Peers |-> Step])

SpecPeers == Init /\ [][NextPeers]_vars

(***************************************************************************)
(* SpecZones: two peers drawing, deleting and clearing zones over their    *)
(* replicas of the shared document, with the sync effect run on every      *)
(* notification.                                                           *)
(***************************************************************************)
NextZones ==
    \/ \E p \in Peers : DocumentReady(p)
    \/ \E p \in Peers, type \in ShapeTypes : CreateShape(p, type)
    \/ \E p \in Peers : \E layer \in drawnItems[p] : DeleteLayer(p, layer)
    \/ \E p \in Peers : SyncEffect(p)
    \/ \E p \in Peers : clearArrangement(p)
    \/ \E p, q \in Peers : MergeShapes(p, q)

SpecZones == Init /\ [][NextZones]_vars

(***************************************************************************)
(* SpecImport: two peers drawing zones and importing arrangement files     *)
(* over their replicas, with the sync effect run on every notification.    *)
(***************************************************************************)
NextImport ==
    \/ \E p \in Peers : DocumentReady(p)
    \/ \E p \in Peers, type \in ShapeTypes : CreateShape(p, type)
    \/ \E p \in Peers, file \in Files : importArrangement(p, file)
    \/ \E p \in Peers : SyncEffect(p)
    \/ \E p, q \in Peers : MergeShapes(p, q)

SpecImport == Init /\ [][NextImport]_vars

(***************************************************************************)
(* SpecRecon: two peers drawing and deleting zones and importing files of  *)
(* the old format, with the sync effect run on every notification.         *)
(***************************************************************************)
NextRecon ==
    \/ \E p \in Peers : DocumentReady(p)
    \/ \E p \in Peers, type \in ShapeTypes : CreateShape(p, type)
    \/ \E p \in Peers : \E layer \in drawnItems[p] : DeleteLayer(p, layer)
    \/ \E p \in Peers, file \in Files : importOldArrangement(p, file)
    \/ \E p \in Peers : SyncEffect(p)
    \/ \E p, q \in Peers : MergeShapes(p, q)

SpecRecon == Init /\ [][NextRecon]_vars

(***************************************************************************)
(* SpecSound: one peer listening (audio enabled, transport started, the   *)
(* audio effect run at any time) and the other drawing zones and assigning *)
(* sounds to them.                                                         *)
(***************************************************************************)
NextSound ==
    \/ \E p \in Peers : DocumentReady(p)
    \/ \E p \in Peers \ {Local}, type \in ShapeTypes : CreateShape(p, type)
    \/ \E p \in Peers : SyncEffect(p)
    \/ \E p, q \in Peers : MergeShapes(p, q)
    \/ \E p \in Peers \ {Local} : \E syncId \in DOMAIN syncIdToLayer[p] :
          \E soundId \in SoundIds : handleSoundSelect(p, syncId, soundId)
    \/ handleUpdateMarkerAudio(Local)
    \/ initializeTiming(Local)
    \/ ~Playing(Local) /\ handleTransportStart(Local)
    \/ \E hit \in SUBSET shapeMetadata[Local] : AudioEffect(Local, hit)

SpecSound == Init /\ [][NextSound]_vars

(***************************************************************************)
(* SpecAudio: one peer drawing zones, assigning sounds, starting and       *)
(* stopping the transport, with the throttled audio effect run at any      *)
(* time while the clock advances.                                          *)
(***************************************************************************)
NextAudio ==
    \/ DocumentReady(Local)
    \/ \E type \in ShapeTypes : CreateShape(Local, type)
    \/ \E syncId \in DOMAIN syncIdToLayer[Local], soundId \in {"kick", "pad"} :
          handleSoundSelect(Local, syncId, soundId)
    \/ handleUpdateMarkerAudio(Local)
    \/ initializeTiming(Local)
    \/ ~Playing(Local) /\ handleTransportStart(Local)
    \/ Playing(Local) /\ handleTransportStop(Local)
    \/ \E d \in {THROTTLE_MS - 1, THROTTLE_MS} : Elapse(d)
    \/ \E hit \in SUBSET shapeMetadata[Local], volume \in Volumes :
          audioEffect(Local, hit, volume)

SpecAudio == Init /\ [][NextAudio]_vars

(***************************************************************************)
(* Properties of TimingSync (under Spec unless said otherwise)             *)
(***************************************************************************)
\* the last call made engine call c
Made(c) == \E i \in DOMAIN out.calls : out.calls[i] = c

\* every position the last call wrote to the engine was x
OnlySeconds(x) ==
    \A i \in DOMAIN out.calls : out.calls[i].f = "seconds" => out.calls[i].v = x

\* C1: a play() on an initialized instance that follows an earlier play() on it,
\* with no pause() and no remote state in between, returns the startTime the
\* earlier call returned, leaves currentState as it was and does not start the
\* engine again.
C1_IdempotentPlay ==
    \A p \in Peers :
        (out.op = "play" /\ out.peer = p /\ out.pre.isInitialized
            /\ Len(playStreak[p]) = 2)
        => /\ playStreak[p][2] = playStreak[p][1]
           /\ The(out.ret).startTime = playStreak[p][1]
           /\ currentState[p] = out.pre.currentState
           /\ ~Made(CallStart)

\* two play() calls in a row, the second after the clock has moved on
C1_Witness ==
    /\ out.op = "play" /\ out.peer = Local /\ out.pre.isInitialized
    /\ Len(playStreak[Local]) = 2
    /\ out.t > playStreak[Local][1]

\* C2 as claimed: whatever the state of the instance, pause() returns a state
\* with startTime null and isPlaying false.
C2_PauseClearsStart_AnyState ==
    out.op = "pause" =>
        The(out.ret).startTime = Null /\ ~The(out.ret).isPlaying

\* C2, amended: pause() on an initialized instance, playing or stopped, returns
\* a state with startTime null and isPlaying false, which is the new
\* currentState; on an instance that is not initialized it returns the last
\* known state, playing or not.
C2_PauseClearsStart ==
    out.op = "pause" =>
        IF out.pre.isInitialized
        THEN /\ The(out.ret).startTime = Null
             /\ ~The(out.ret).isPlaying
             /\ currentState[out.peer] = The(out.ret)
        ELSE out.ret = Some(out.pre.currentState)

\* pause() on an initialized instance that was playing
C2_Witness ==
    /\ out.op = "pause" /\ out.pre.isInitialized
    /\ out.pre.currentState.isPlaying
    /\ out.pre.currentState.startTime # Null

\* isPlaying === true iff startTime !== null
Consistent(state) == state.isPlaying <=> state.startTime # Null

\* C3 (under SpecPeers): on every peer currentState has isPlaying iff
\* startTime is not null, and so have the state the last call returned for
\* publication and the transport field of every replica of the document.
C3_TransportInvariant ==
    /\ \A p \in Peers : Consistent(currentState[p])
    /\ out.ret # None => Consistent(The(out.ret))
    /\ \A p \in Peers :
          docTransport[p].val # None => Consistent(The(docTransport[p].val))

\* peer B plays the state peer A published
C3_Witness ==
    /\ out.op = "syncFromRemote" /\ out.peer = "B"
    /\ docTransport["B"].by = "A"
    /\ currentState["B"].isPlaying
    /\ currentState["B"] = The(docTransport["B"].val)

C8_Handoff ==
    (out.op = "syncFromRemote" /\ out.pre.isInitialized
        /\ currentState[out.peer].isPlaying)
    => /\ Made(CallSeconds(out.t - currentState[out.peer].startTime))
       /\ OnlySeconds(out.t - currentState[out.peer].startTime)
       /\ ~Made(CallStop)
       /\ transport[out.peer].state = "started"

\* a stopped peer takes over a transport that started two steps earlier
C8_Witness ==
    /\ out.op = "syncFromRemote" /\ out.pre.isInitialized
    /\ out.pre.transport.state = "stopped"
    /\ currentState[out.peer].isPlaying
    /\ out.t - currentState[out.peer].startTime = 2 * Step

C10_NotInitialized ==
    (out.op \in {"play", "pause", "setBPM"} /\ ~out.pre.isInitialized)
    => /\ out.ret = Some(out.pre.currentState)
       /\ currentState[out.peer] = out.pre.currentState
       /\ ~isInitialized[out.peer]
       /\ out.calls = <<>>

\* pause() on an instance torn down while it was playing
C10_Witness ==
    /\ out.op = "pause" /\ ~out.pre.isInitialized
    /\ out.pre.currentState.isPlaying
    /\ out.pre.transport.state = "started"

(***************************************************************************)
(* Properties of the zone reconciliation (under SpecZones)                 *)
(***************************************************************************)
\* the render handles and the geometry-shadow entries a peer has for a geometry
Handles(p, coordinates) == {layer \in drawnItems[p] : layer.coordinates = coordinates}
Shadows(p, coordinates) == {m \in shapeMetadata[p] : m.coordinates = coordinates}

\* C4: a run of the sync effect at a peer leaves every id of the peer's pending
\* set its render handle, in the feature group, its entries in both id maps and
\* its geometry-shadow entry, whether or not the snapshot of the run has the id.
C4_PendingGuard ==
    [][\A p \in Peers : \A syncId \in pendingLocalShapes[p] :
          (zout'.op = "syncEffect" /\ zout'.peer = p)
          => /\ syncId \in DOMAIN syncIdToLayer[p]
             /\ syncId \in DOMAIN syncIdToLayer'[p]
             /\ syncIdToLayer'[p][syncId] = syncIdToLayer[p][syncId]
             /\ LET layer == syncIdToLayer[p][syncId]
                IN  /\ layer \in drawnItems[p] /\ layer \in drawnItems'[p]
                    /\ layer \in DOMAIN layerToSyncId'[p]
                    /\ layerToSyncId'[p][layer] = syncId
                    /\ \E m \in shapeMetadata[p] :
                          m.id = layer.stamp /\ m \in shapeMetadata'[p]]_vars

\* a run of the sync effect on a snapshot of an existing shapes map that does
\* not have an id that is pending, and whose zone is still on the map
C4_Witness ==
    /\ zout.op = "syncEffect"
    /\ ShapesObject(shapes[zout.peer]) # None
    /\ \E syncId \in pendingLocalShapes[zout.peer] :
          /\ syncId \notin {e.id : e \in syncedShapes(zout.peer)}
          /\ syncId \in DOMAIN syncIdToLayer[zout.peer]
          /\ syncIdToLayer[zout.peer][syncId] \in drawnItems[zout.peer]

\* C5: after a run of the sync effect at a peer, every zone of its snapshot that
\* the peer created itself has exactly one render handle and exactly one
\* geometry-shadow entry on that peer.
C5_NoDuplicateRendering ==
    \A p \in Peers :
        (zout.op = "syncEffect" /\ zout.peer = p)
        => \A e \in syncedShapes(p) :
              e.createdBy = p
              => /\ Cardinality(Handles(p, e.coordinates)) = 1
                 /\ Cardinality(Shadows(p, e.coordinates)) = 1
                 /\ e.id \in DOMAIN syncIdToLayer[p]
                 /\ syncIdToLayer[p][e.id] \in Handles(p, e.coordinates)

\* a peer has received the echo of a zone it created: the id is confirmed
C5_Witness ==
    /\ zout.op = "syncEffect"
    /\ \E e \in syncedShapes(zout.peer) :
          /\ e.createdBy = zout.peer
          /\ e.id \in processedSyncIds[zout.peer]
          /\ e.id \notin pendingLocalShapes[zout.peer]

C11_Teardown ==
    /\ \A p \in Peers :
          (out.op = "destroy" /\ out.peer = p)
          => /\ ~isInitialized[p] /\ ~onBpmChangeCallback[p]
             /\ updateInterval[p] = "null" /\ pendingTimers[p] = 0
    /\ \A p \in Peers : destroy(destroy(Instance(p))) = destroy(Instance(p))
    /\ \A p \in Peers : ~isInitialized[p] => pendingTimers[p] = 0
    /\ out.op = "tick" => out.pre.isInitialized

\* destroy() on an initialized, playing instance with its callback registered
C11_Witness ==
    /\ out.op = "destroy" /\ out.pre.isInitialized
    /\ out.pre.currentState.isPlaying
    /\ ~isInitialized[out.peer]

\* the supported range of tempi
InRange(bpm) == bpm >= 20 /\ bpm <= 400

\* C12 as claimed (under SpecTempo): the bpm of currentState, the tempo of the
\* engine and the bpm of every returned state are in [20, 400].
C12_TempoInRange ==
    /\ \A p \in Peers :
          InRange(currentState[p].bpm) /\ InRange(transport[p].bpm)
    /\ out.ret # None => InRange(The(out.ret).bpm)

(***************************************************************************)
(* Zone visibility, import and the reconciliation steps (under SpecZones   *)
(* and SpecImport)                                                         *)
(***************************************************************************)
\* C13 as claimed, its first step: the CREATED handler at a peer, whether or not
\* the peer's document is ready, leaves the record of the new zone in the peer's
\* replica of the shared document (from where the other peers would render it).
C13_ZoneVisibility ==
    [][\A p \in Peers :
          (minted' = minted + 1 /\ (minted + 1) \in pendingLocalShapes'[p])
          => \E op \in shapes'[p] : op.k = "put" /\ op.id = minted + 1]_vars

C15_LocalDeletion ==
    [][\A p \in Peers : \A layer \in drawnItems[p] \ drawnItems'[p] :
          (zout'.op = "other" /\ layer \in DOMAIN layerToSyncId[p])
          => LET syncId == layerToSyncId[p][layer]
             IN  /\ syncId \in SyncIds(p)
                    => DelOp(The(ShapesObject(shapes[p])), syncId) \in shapes'[p]
                 /\ syncId \notin {e.id : e \in Entries(shapes'[p])}
                 /\ pendingLocalShapes'[p] = pendingLocalShapes[p] \ {syncId}
                 /\ processedSyncIds'[p] = processedSyncIds[p] \ {syncId}
                 /\ DOMAIN syncIdToLayer'[p] = DOMAIN syncIdToLayer[p] \ {syncId}
                 /\ DOMAIN layerToSyncId'[p] = DOMAIN layerToSyncId[p] \ {layer}
                 /\ shapeMetadata'[p] =
                        {m \in shapeMetadata[p] : m.id # layer.stamp}]_vars

\* peer A has deleted a zone whose record was in its replica, which no other
\* peer has received
C15_Witness ==
    /\ \E op \in shapes["A"] : op.k = "del"
    /\ shapes["B"] = {}
    /\ drawnItems["A"] = {} /\ processedSyncIds["A"] = {}
    /\ zout.op = "other"

\* C16: a run of the sync effect at a peer gives every id of its snapshot that
\* was neither processed nor pending (and has a drawable type) exactly one new
\* render handle, an entry in both id maps, its place in the processed set and
\* one new geometry-shadow entry; an id that was pending leaves the pending set
\* and keeps its handle, its map entries, its place in the processed set and its
\* geometry-shadow entries as they were.
C16_RemoteObservation ==
    [][\A p \in Peers :
          (zout'.op = "syncEffect" /\ zout'.peer = p)
          => \A e \in syncedShapes(p) :
                /\ (/\ e.id \notin processedSyncIds[p]
                    /\ e.id \notin pendingLocalShapes[p]
                    /\ e.type \in LayerTypes)
                   => /\ e.id \in DOMAIN syncIdToLayer'[p]
                      /\ e.id \in processedSyncIds'[p]
                      /\ LET layer == syncIdToLayer'[p][e.id]
                         IN  /\ {l \in drawnItems'[p] :
                                    l.coordinates = e.coordinates} = {layer}
                             /\ layer \notin drawnItems[p]
                             /\ layer \in DOMAIN layerToSyncId'[p]
                             /\ layerToSyncId'[p][layer] = e.id
                             /\ {m \in shapeMetadata'[p] :
                                    m.coordinates = e.coordinates}
                                = {DrawnLayer(layer.stamp, e.type, e.coordinates)}
                             /\ Shadows(p, e.coordinates) = {}
                /\ e.id \in pendingLocalShapes[p]
                   => /\ e.id \notin pendingLocalShapes'[p]
                      /\ e.id \in processedSyncIds[p]
                      /\ e.id \in processedSyncIds'[p]
                      /\ e.id \in DOMAIN syncIdToLayer'[p]
                      /\ syncIdToLayer'[p][e.id] = syncIdToLayer[p][e.id]
                      /\ {l \in drawnItems'[p] : l.coordinates = e.coordinates}
                         = {l \in drawnItems[p] : l.coordinates = e.coordinates}
                      /\ {x \in DOMAIN layerToSyncId'[p] : layerToSyncId'[p][x] = e.id}
                         = {x \in DOMAIN layerToSyncId[p] : layerToSyncId[p][x] = e.id}
                      /\ {m \in shapeMetadata'[p] : m.coordinates = e.coordinates}
                         = Shadows(p, e.coordinates)]_vars

\* the sync effect has drawn, at a peer, a zone another peer created
C16_Witness ==
    /\ zout.op = "syncEffect"
    /\ \E e \in syncedShapes(zout.peer) :
          /\ e.createdBy # zout.peer
          /\ e.id \in processedSyncIds[zout.peer]
          /\ Cardinality(Handles(zout.peer, e.coordinates)) = 1
          /\ Cardinality(Shadows(zout.peer, e.coordinates)) = 1

\* C17: a run of the sync effect at a peer takes from every id that had a render
\* handle, is not in the snapshot and is not pending its handle, its entries in
\* both id maps and the processed set and its geometry-shadow entry; an id that
\* had a handle and is in the snapshot keeps all of them.
C17_RemoteDeletion ==
    [][\A p \in Peers :
          (zout'.op = "syncEffect" /\ zout'.peer = p)
          => \A syncId \in DOMAIN syncIdToLayer[p] :
                LET layer == syncIdToLayer[p][syncId]
                IN  /\ (syncId \notin SyncIds(p) /\ syncId \notin pendingLocalShapes[p])
                       => /\ layer \in drawnItems[p]
                          /\ layer \notin drawnItems'[p]
                          /\ syncId \notin DOMAIN syncIdToLayer'[p]
                          /\ layer \notin DOMAIN layerToSyncId'[p]
                          /\ syncId \notin processedSyncIds'[p]
                          /\ ~\E m \in shapeMetadata'[p] : m.id = layer.stamp
                    /\ syncId \in SyncIds(p)
                       => /\ layer \in drawnItems[p]
                          /\ layer \in drawnItems'[p]
                          /\ syncId \in DOMAIN syncIdToLayer'[p]
                          /\ syncIdToLayer'[p][syncId] = layer
                          /\ layer \in DOMAIN layerToSyncId'[p]
                          /\ layerToSyncId'[p][layer] = syncId
                          /\ syncId \in processedSyncIds'[p]
                          /\ \E m \in shapeMetadata[p] :
                                m.id = layer.stamp /\ m \in shapeMetadata'[p]]_vars

\* the sync effect at a peer has taken away a zone of another peer that the
\* peer had drawn: its replica has the record, no deletion the peer could have
\* written and a later assignment of the other peer, and its map is empty
C17_Witness ==
    /\ zout.op = "syncEffect"
    /\ lastId[zout.peer] = 1
    /\ drawnItems[zout.peer] = {} /\ shapeMetadata[zout.peer] = {}
    /\ processedSyncIds[zout.peer] = {}
    /\ \E op \in shapes[zout.peer] : op.k = "put" /\ op.createdBy # zout.peer
    /\ \A op \in shapes[zout.peer] : op.k # "del" /\ op.obj[2] # zout.peer
    /\ syncedShapes(zout.peer) = {}

(***************************************************************************)
(* The sound a zone triggers (under SpecSound)                              *)
(***************************************************************************)
\* C18: in a run of the audio effect with audio enabled and the transport
\* playing, every shape hit whose layer has a sync id with a record in the
\* current snapshot and a sound in that record triggers exactly that sound,
\* whatever its DrawnLayer stores, and every other shape hit triggers none.
C18_AuthoritativeSound ==
    [][\A p \in Peers :
          (aout' # aout /\ aout'.peer = p /\ isAudioEnabled[p] /\ Playing(p))
          => \A m \in aout'.hit :
                LET layers == {l \in drawnItems[p] :
                                  l.stamp = m.id /\ l \in DOMAIN layerToSyncId[p]}
                    records == {e \in syncedShapes(p) :
                                   \E l \in layers : layerToSyncId[p][l] = e.id}
                    used == {x.soundId : x \in {y \in aout'.sounds : y.stamp = m.id}}
                IN  used = {soundOf(shapes[p], e.id) : e \in records} \ {"null"}]_vars

\* a run of the audio effect in which a zone triggers a sound another peer
\* assigned in place of an earlier one, while its DrawnLayer stores another
C18_Witness ==
    /\ aout.op = "audio"
    /\ \E x \in aout.sounds :
          /\ shadowSound[aout.peer][x.stamp] # x.soundId
          /\ shadowSound[aout.peer][x.stamp] # "null"
          /\ \E op \in shapes[aout.peer] :
                op.k = "snd" /\ op.by # aout.peer /\ op.n > 1
                /\ op.soundId = x.soundId

(***************************************************************************)
(* Echoes and writes of the transport field (under SpecPeers)              *)
(***************************************************************************)
\* C19: a syncFromRemote calls start only on an engine that was not started and
\* stop only on one that was not stopped; and when the state a peer applies is
\* the one it published itself and holds as its current state (the echo of its
\* play, pause or tempo change), the call neither starts nor stops the engine
\* and leaves the current state and the engine's state as they were.
C19_EchoTolerance ==
    \A p \in Peers :
        (out.op = "syncFromRemote" /\ out.peer = p)
        => /\ Made(CallStart) => out.pre.transport.state # "started"
           /\ Made(CallStop) => out.pre.transport.state # "stopped"
           /\ (/\ out.pre.isInitialized
               /\ docTransport[p].by = p
               /\ transportState(p) = Some(out.pre.currentState))
              => /\ ~Made(CallStart) /\ ~Made(CallStop)
                 /\ currentState[p] = out.pre.currentState
                 /\ transport[p].state = out.pre.transport.state
                 /\ transport[p].state =
                       (IF currentState[p].isPlaying THEN "started" ELSE "stopped")

\* a peer that is playing has applied the state its own play() published
C19_Witness ==
    /\ out.op = "syncFromRemote" /\ out.pre.isInitialized
    /\ docTransport[out.peer].by = out.peer
    /\ transportState(out.peer) = Some(out.pre.currentState)
    /\ currentState[out.peer].isPlaying
    /\ Made(CallSeconds(0))

\* the operations of a user on the transport
UserOps == {"play", "pause", "setBPM"}

\* C20: a step that applies a state from the document (the transport effect,
\* the initialization, and also a corrector tick and a teardown) leaves every
\* replica's transport field as it was; the transport field of a replica
\* changes only by replication of a newer value from another replica, or by
\* one write, of the state the call returned, in a step that is a play, pause or
\* tempo action of that peer's user. So there are no more writes than user
\* actions.
C20_NoPingPong ==
    [][\A p \in Peers :
          /\ (out' # out /\ out'.op \notin UserOps) => docTransport' = docTransport
          /\ docTransport'[p] # docTransport[p]
             => \/ /\ out' = out
                   /\ \E q \in Peers \ {p} :
                         /\ docTransport'[p] = docTransport[q]
                         /\ Newer(docTransport[q], docTransport[p])
                \/ /\ out'.op \in UserOps /\ out'.peer = p
                   /\ docTransport'[p] =
                         [ver |-> docTransport[p].ver + 1, by |-> p, val |-> out'.ret]
                   /\ \A q \in Peers \ {p} : docTransport'[q] = docTransport[q]]_vars

\* a peer has applied a state another peer published, which changed its
\* current state, and every replica still holds that state
C20_Witness ==
    /\ out.op = "syncFromRemote" /\ out.pre.isInitialized
    /\ docTransport[out.peer].by \notin {out.peer, "none"}
    /\ docTransport[out.peer].val = Some(currentState[out.peer])
    /\ out.pre.currentState # currentState[out.peer]
    /\ \A q \in Peers : docTransport[q] = docTransport[out.peer]

C22_IdempotentPause ==
    (out.op = "pause" /\ out.pre.isInitialized
        /\ ~out.pre.currentState.isPlaying
        /\ out.pre.currentState.startTime = Null)
    => /\ out.ret = Some(out.pre.currentState)
       /\ out.calls = <<>>

(***************************************************************************)
(* Engine failure (under SpecEngine)                                       *)
(***************************************************************************)
\* C23: when the engine throws on start or stop during play() or pause(), the
\* local state is still updated, the new state is still returned and, the
\* document being ready, the document holds the returned state.
C23_EngineFailure ==
    \A p \in Peers :
        ("threw" \in DOMAIN out /\ out.peer = p)
        => /\ currentState[p].isPlaying = (out.op = "play")
           /\ out.ret = Some(currentState[p])
           /\ out.ready => transportState(p) = out.ret

(***************************************************************************)
(* The shared shapes map (under SpecDoc)                                   *)
(***************************************************************************)
\* C24: deleteShape, updateShapeSound and updateShapeCoordinates called with
\* an id that is not in the shapes map of the replica make no change to the
\* replica: the shapes map is as it was and the zone is not re-created.
C24_StaleReference ==
    [][\A p \in Peers :
          (/\ zout'.op \in {"deleteShape", "updateShapeSound",
                            "updateShapeCoordinates"}
           /\ zout'.peer = p
           /\ zout'.id \notin Keys(shapes[p]))
          => /\ shapes'[p] = shapes[p]
             /\ zout'.id \notin Keys(shapes'[p])]_vars

\* a call on a ready replica with the id of a zone that has been deleted there
C24_Witness ==
    /\ zout.op \in {"deleteShape", "updateShapeSound", "updateShapeCoordinates"}
    /\ zout.stale /\ zout.ready
    /\ \E op \in shapes[zout.peer] :
          /\ op.k = "put" /\ op.id = zout.id
          /\ DelOp(op.obj, op.id) \in shapes[zout.peer]

(***************************************************************************)
(* Reconciliation over any snapshots (under SpecRecon)                     *)
(***************************************************************************)
\* the records the replicas hold, deleted or not: a snapshot a peer is
\* delivered is a set of them
Known ==
    UNION {{[id |-> op.rid, type |-> op.type,
             coordinates |-> coordinatesOf(shapes[q], op),
             createdBy |-> op.createdBy, createdAt |-> op.createdAt] :
               op \in {x \in shapes[q] : x.k = "put"}} : q \in Peers}

Rendered(z) == DOMAIN z.syncIdToLayer

\* from the reconciliation state z: the sync effect on snapshot f a second time
\* changes nothing, and after s1 and s2 in either order and then f the
\* rendered ids are those of the records in `final` and the pending ones
Reconciled(z, s1, s2, f, final) ==
    LET once == syncEffect(z, f)
        a == syncEffect(syncEffect(syncEffect(z, s1), s2), f)
        b == syncEffect(syncEffect(syncEffect(z, s2), s1), f)
    IN  /\ syncEffect(once, f) = once
        /\ Rendered(a) = {e.id : e \in final} \cup a.pendingLocalShapes
        /\ Rendered(b) = {e.id : e \in final} \cup b.pendingLocalShapes

\* C25: at every peer and for any snapshots, processing a snapshot twice
\* leaves the tables and the render handles as after processing it once, and
\* two snapshots in either order followed by a final one leave rendered the
\* ids of the final snapshot and the ids still pending.
C25_Reconciliation ==
    \A p \in Peers : \A s1, s2, f \in SUBSET Known :
        Reconciled(Zones(p), s1, s2, f, f)

(***************************************************************************)
(* The throttled audio effect (under SpecAudio)                            *)
(***************************************************************************)
\* C26: a run of the audio effect that is not skipped comes at least 500 ms
\* after the last one that was not skipped, and a run hands the SoundPlayer
\* something only when the sounds differ from those it was last handed, in
\* their ids or in their volumes.
C26_Throttled ==
    [][\A p \in Peers :
          player'[p] # player[p]
          => /\ player'[p].run = "ran"
                => now - player[p].lastCalculation >= THROTTLE_MS
             /\ player'[p].call.f # "none"
                => player'[p].call.sounds # player[p].applied]_vars

C29_Monotone ==
    \A p \in Peers :
        (isInitialized[p] /\ currentState[p].isPlaying
            /\ Truthy(currentState[p].startTime))
        => \A t1, t2 \in Times \cup {now} :
              t1 < t2 => elapsed(currentState[p], t1) <= elapsed(currentState[p], t2)

\* a corrector run two clock steps into a playback writes the position it
\* expects, which is two steps
C29_Witness ==
    /\ out.op = "tick" /\ out.pre.isInitialized
    /\ out.pre.currentState.isPlaying
    /\ currentState[out.peer] = out.pre.currentState
    /\ out.t = out.pre.currentState.startTime + 2 * Step
    /\ Made(CallSeconds(2 * Step))

\* C30: on every replica each record of the shapes map has as id the key it is
\* stored under, and no step (a call of a document operation or a merge)
\* changes the id, createdBy or createdAt of a record that is in the map before
\* and after it.
C30_IdStability ==
    [][\A p \in Peers :
          shapes'[p] # shapes[p]
          => /\ \A new \in Puts(shapes'[p]) : new.rid = new.id
             /\ \A old \in Puts(shapes[p]), new \in Puts(shapes'[p]) :
                   new.id = old.id
                   => /\ new.rid = old.rid
                      /\ new.createdBy = old.createdBy
                      /\ new.createdAt = old.createdAt]_vars

\* a peer has assigned a sound to a zone another peer created, and the other
\* replica has received the assignment
C30_Witness ==
    \E p \in Peers, key \in ShapeIds :
        /\ \A q \in Peers :
              /\ key \in Keys(shapes[q])
              /\ Records(shapes[q])[key].soundId = "kick"
        /\ Records(shapes[p])[key].createdBy = p
        /\ \E op \in shapes[p] : op.k = "snd" /\ op.id = key /\ op.by # p

(***************************************************************************)
(* SpecTables: one peer drawing, deleting, clearing and importing (files   *)
(* of both formats), the other drawing, both running the sync effect on    *)
(* every notification of their replicas.                                   *)
(***************************************************************************)
NextTables ==
    \/ \E p \in Peers : DocumentReady(p)
    \/ \E p \in Peers, type \in ShapeTypes : CreateShape(p, type)
    \/ \E layer \in drawnItems[Local] : DeleteLayer(Local, layer)
    \/ clearArrangement(Local)
    \/ \E file \in Files : importArrangement(Local, file)
    \/ \E file \in Files : importOldArrangement(Local, file)
    \/ \E p \in Peers : SyncEffect(p)
    \/ \E p, q \in Peers : MergeShapes(p, q)

SpecTables == Init /\ [][NextTables]_vars

\* the two maps of peer p are inverse of each other
Inverse(p) ==
    /\ \A syncId \in DOMAIN syncIdToLayer[p] :
          /\ syncIdToLayer[p][syncId] \in DOMAIN layerToSyncId[p]
          /\ layerToSyncId[p][syncIdToLayer[p][syncId]] = syncId
    /\ \A layer \in DOMAIN layerToSyncId[p] :
          /\ layerToSyncId[p][layer] \in DOMAIN syncIdToLayer[p]
          /\ syncIdToLayer[p][layerToSyncId[p][layer]] = layer

\* C31: after every operation on a peer's zones (local create, local delete,
\* sync effect, clear, import) the map from sync ids to layers and the map
\* from layers to sync ids are inverse of each other, the keys of the first
\* are the processed set, the pending set is a subset of the processed set,
\* and each processed id has exactly one geometry-shadow entry (the DrawnLayer
\* whose id is the stamp of the id's layer).
C31_IdTables ==
    \A p \in Peers :
        /\ Inverse(p)
        /\ DOMAIN syncIdToLayer[p] = processedSyncIds[p]
        /\ pendingLocalShapes[p] \subseteq processedSyncIds[p]
        /\ \A syncId \in processedSyncIds[p] :
              Cardinality({m \in shapeMetadata[p] :
                              m.id = syncIdToLayer[p][syncId].stamp}) = 1

\* a sync effect has drawn a zone that the other peer created
C31_Witness ==
    \E p \in Peers :
        /\ zout.op = "syncEffect" /\ zout.peer = p
        /\ pendingLocalShapes[p] = {}
        /\ \E e \in syncedShapes(p) :
              e.id \in processedSyncIds[p] /\ e.createdBy # p

\* C32: in every state of an initialized peer the playback engine is running
\* exactly when the peer's TimingSync state has isPlaying true, also after the
\* SoundPlayer's stopAll() and after a sound made of a Loop or a Pattern is
\* triggered.
C32_EngineFollows ==
    \A p \in Peers :
        isInitialized[p]
        => (transport[p].state = "started" <=> currentState[p].isPlaying)

(***************************************************************************)
(* SpecConverge: two peers running the component over their replicas of    *)
(* the `transport` field.  Both enable audio and start the transport; one  *)
(* also stops it, changes the tempo and switches audio off.  The effects   *)
(* run when their dependencies have changed, and before the next event of  *)
(* the user is handled.  What React and the sync server do is not put off  *)
(* for ever: the document becomes ready, the effects run, the replicas     *)
(* receive each other's changes.                                           *)
(***************************************************************************)
NextConverge ==
    \/ \E p \in Peers : DocumentReady(p)
    \/ \E p \in Peers : Settled(p) /\ handleUpdateMarkerAudio(p)
    \/ Settled(Local) /\ handleStopAudio(Local)
    \/ \E p \in Peers : initializeTiming(p)
    \/ \E p \in Peers : transportSyncEffectRun(p)
    \/ \E p \in Peers : Settled(p) /\ handleTransportStart(p)
    \/ Settled(Local) /\ handleTransportStop(Local)
    \/ Settled(Local) /\ handleBPMChange(Local, 140)
    \/ \E p, q \in Peers : MergeTransport(p, q)
    \/ now = Epoch /\ Advance(Step, [p \in Peers |-> Step])

SpecConverge ==
    /\ Init
    /\ [][NextConverge]_vars
    /\ \A p \in Peers : WF_vars(DocumentReady(p))
    /\ \A p \in Peers : WF_vars(initializeTiming(p))
    /\ \A p \in Peers : WF_vars(transportSyncEffectRun(p))
    /\ \A p, q \in Peers : WF_vars(MergeTransport(p, q))

\* the replicas hold the same `transport` field
Agree == \A p, q \in Peers : docTransport[p] = docTransport[q]

\* peer p's TimingSync state is the shared transport state, if there is one
Converged(p) ==
    transportState(p) # None => currentState[p] = The(transportState(p))

\* C33 as stated: once the users issue no more play, pause or tempo actions
\* and the replicas have received each other's changes, every initialized
\* peer's currentState is, from some time on, the shared transport state.
C33_Convergence ==
    <>[](Agree /\ \A p \in Peers : isInitialized[p] => Converged(p))

\* C33: the same of every peer that has audio enabled and TimingSync ready
\* (the peers on which the transport sync effect acts), also when two peers
\* called play() concurrently at different times.
C33_ConvergenceEnabled ==
    <>[](Agree /\ \A p \in Peers :
                     (isAudioEnabled[p] /\ timingSyncReady[p]) => Converged(p))

\* two peers have started the transport concurrently at different times, and a
\* peer has taken over the other's startTime from the merged document
C33_Witness ==
    /\ Agree
    /\ \E p, q \in Peers :
          /\ p # q
          /\ docTransport[p].by = q
          /\ isAudioEnabled[p] /\ timingSyncReady[p] /\ Settled(p)
          /\ transportState(p) # None
          /\ currentState[p] = The(transportState(p))
          /\ currentState[p].isPlaying
          /\ out.op = "syncFromRemote" /\ out.peer = p
          /\ out.pre.currentState.isPlaying
          /\ out.pre.currentState.startTime # currentState[p].startTime

\* React commits a render of peer p after the document's shapes have changed:
\* the sync effect is scheduled with the syncedShapes of this render
Render(p) ==
    /\ syncedShapes(p) # rendered[p].shapes
    /\ rendered' = [rendered EXCEPT ![p] = [shapes |-> syncedShapes(p),
                                           pending |-> TRUE]]
    /\ UNCHANGED <<tvars, drawnItems, syncIdToLayer, layerToSyncId,
                   processedSyncIds, pendingLocalShapes, shapeMetadata, lastId,
                   shapes, minted, zout, clearedPending, shadowSound, aout,
                   player, effectDeps, soundPlayer, gpTransport, users>>

\* React runs the scheduled sync effect of peer p, on the syncedShapes of the
\* render that scheduled it
RunSyncEffect(p) ==
    /\ rendered[p].pending
    /\ syncEffect(Zones(p), rendered[p].shapes).lastId <= MaxStamps
    /\ ZCommit(p, syncEffect(Zones(p), rendered[p].shapes))
    /\ rendered' = [rendered EXCEPT ![p].pending = FALSE]
    /\ zout' = ZOut("syncEffect", p)
    /\ UNCHANGED <<tvars, shapes, minted, clearedPending, player, effectDeps,
                   soundPlayer, gpTransport, users>>

(***************************************************************************)
(* SpecRender: two peers drawing zones, one of them deleting, over their   *)
(* replicas.  A change of the document makes React render; the sync effect *)
(* of the render runs later, and the draw control's events (handled by     *)
(* Leaflet, not by React) can come in between.                             *)
(***************************************************************************)
NextRender ==
    \/ \E p \in Peers : DocumentReady(p)
    \/ \E p \in Peers, type \in ShapeTypes : CreateShape(p, type)
    \/ \E layer \in drawnItems[Local] : DeleteLayer(Local, layer)
    \/ \E p \in Peers : Render(p)
    \/ \E p \in Peers : RunSyncEffect(p)
    \/ \E p, q \in Peers : MergeShapes(p, q)

SpecRender == Init /\ [][NextRender]_vars

\* the ids the local peer has deleted with the delete tool (in SpecRender no
\* other peer deletes)
DeletedLocally == {op.id : op \in {x \in shapes[Local] : x.k = "del"}}

\* C34: once a peer has deleted a zone locally, no later run of the sync effect
\* on that peer gives the zone a render handle again, whatever snapshot the
\* run works on.
C34_NoResurrection ==
    \A id \in DeletedLocally : id \notin DOMAIN syncIdToLayer[Local]

\* C35: every id in a peer's pending set is the id of a record that was written
\* to the peer's replica of the document (so that a snapshot can confirm it);
\* in particular a zone drawn while the document is not ready is not left
\* rendered and pending with no record.
C35_PendingWritten ==
    \A p \in Peers :
        \A id \in pendingLocalShapes[p] :
            \E op \in shapes[p] : op.k = "put" /\ op.id = id

\* C36: a run of the audio effect at a peer that finds the shared transport
\* state not playing, or audio disabled, leaves none of the peer's zone sounds
\* sounding, also when it comes less than 500 ms after the previous
\* recomputation (no later run follows unless the user moves or acts).
C36_StopObserved ==
    [][\A p \in Peers :
          (/\ player'[p] # player[p]
           /\ ~(isAudioEnabled'[p] /\ Playing(p)'))
          => player'[p].applied = {}]_vars

(***************************************************************************)
(* SpecPlayer: the SoundPlayer of one page under every order of calls of   *)
(* playMultipleWithVolume, stopSound and stopAll, its timeouts and the     *)
(* clock.                                                                  *)
(***************************************************************************)
NextPlayer ==
    \/ \E incomingSoundIds \in SUBSET (SoundIds \ {"null"}) :
          playMultipleWithVolumeCall(incomingSoundIds)
    \/ \E soundId \in SoundIds \ {"null"} : stopSoundCall(soundId)
    \/ stopAllCall
    \/ stopSoundTimeoutFires
    \/ \E d \in {DestroyDelay \div 3, DestroyDelay} : PlayerElapse(d)

SpecPlayer == Init /\ [][NextPlayer]_vars

\* C37: once the timeouts pending after a playMultipleWithVolume(sounds) have
\* fired, the ids in soundMap are the soundIds of that call, also when one of
\* them was stopped less than 150 ms before the call.
C37_SoundingSet ==
    (/\ soundPlayer.call.f = "playMultipleWithVolume"
     /\ soundPlayer.timers = <<>>)
    => DOMAIN soundPlayer.soundMap = soundPlayer.call.sounds

(***************************************************************************)
(* One corrector loop (under Spec)                                         *)
(***************************************************************************)
\* C38: after any sequence of initialize() and destroy() calls at most one
\* corrector timer is pending; an initialize() on an initialized instance sets
\* no timeout, makes no engine call and leaves the state with its bpm and the
\* engine's bpm and run state as they were.
C38_SingleLoop ==
    /\ \A p \in Peers : pendingTimers[p] <= 1
    /\ \A p \in Peers :
          (out.op = "initialize" /\ out.peer = p /\ out.pre.isInitialized)
          => /\ out.calls = <<>>
             /\ currentState[p] = out.pre.currentState
             /\ transport[p].bpm = out.pre.transport.bpm
             /\ transport[p].state = out.pre.transport.state
             /\ isInitialized[p]

\* initialize() on an initialized instance whose corrector timer is pending
C38_Witness ==
    /\ out.op = "initialize" /\ out.pre.isInitialized
    /\ pendingTimers[out.peer] = 1

(***************************************************************************)
(* SpecMaster: two peers whose documents become ready, who enable audio,   *)
(* whose "Initialize transport" effects run and whose replicas exchange    *)
(* d.transport.                                                            *)
(***************************************************************************)
NextMaster ==
    \/ \E p \in Peers : DocumentReady(p)
    \/ \E p \in Peers : handleUpdateMarkerAudio(p)
    \/ \E p \in Peers : initializeTransportEffect(p)
    \/ \E p, q \in Peers : MergeGPTransport(p, q)
    \/ \E d \in {THROTTLE_MS} : Elapse(d)

SpecMaster == Init /\ [][NextMaster]_vars

\* C39: initializeTransportIfNeeded() returns true for a peer only if that
\* peer's initialization is the one recorded in the document: over all peers at
\* most one call has returned true, and a peer for which it returned true is
\* the masterId of d.transport in every replica that has one.
C39_SingleMaster ==
    /\ Cardinality(gpTransport.becameMaster) <= 1
    /\ \A p \in gpTransport.becameMaster : \A q \in Peers :
          gpTransport.doc[q].val # None
          => The(gpTransport.doc[q].val).masterId = p

(***************************************************************************)
(* SpecPresence: the tabs of two users, hidden and shown, with their       *)
(* heartbeats, over the clock.                                             *)
(***************************************************************************)
NextPresence ==
    \/ \E p \in Peers : DocumentReady(p)
    \/ \E p \in Peers : presenceEffect(p)
    \/ \E p \in Peers : heartbeat(p)
    \/ \E p \in Peers : handleVisibilityChange(p)
    \/ \E p \in Peers : reload(p)
    \/ \E d \in {THROTTLE_MS} : Elapse(d)

SpecPresence == Init /\ [][NextPresence]_vars

\* C40: after any sequence of presence updates of a user, the record has
\* hiddenSince iff the tab was hidden at the most recent update, and then it is
\* the time of the first update of the run of hidden updates that the most
\* recent one belongs to; connectedAt is the time of the user's first update;
\* lastSeen is the time of the most recent update and not less than before it.
C40_Presence ==
    \A p \in Peers :
        users.doc[p] # None
        => LET user == The(users.doc[p])
               last == The(users.last[p])
           IN  /\ (user.hiddenSince # None) <=> last.hidden
               /\ user.hiddenSince = last.since
               /\ user.connectedAt = last.first
               /\ last.pre # None
                     => /\ user.lastSeen >= The(last.pre).lastSeen
                        /\ user.connectedAt = The(last.pre).connectedAt
               /\ user.id = p

\* a user whose tab was hidden at the update before the most recent one and is
\* still hidden at the most recent one, which came later
C40_Witness ==
    \E p \in Peers :
        /\ users.doc[p] # None
        /\ The(users.last[p]).hidden
        /\ The(users.last[p]).pre # None
        /\ The(The(users.last[p]).pre).hiddenSince # None
        /\ The(users.doc[p]).lastSeen > The(The(users.doc[p]).hiddenSince)
====
